---- MODULE Spec2Model ----
(***************************************************************************)
(* Model of the ledger ingester (package handlers): Ingester.Start, the    *)
(* streaming loop Ingester.processLedgers, the per-ledger unit of work     *)
(* Ingester.processLedger with its database transaction, the Stats         *)
(* counters, and the WebSocketHub broadcast queue.                         *)
(*                                                                         *)
(* The ledger source (backends.LedgerBackend) and the database (sql.DB)    *)
(* are external: every call into them returns one of the results its       *)
(* interface allows.  A failed statement inside a database transaction     *)
(* either leaves the transaction usable (the error is local to the call)   *)
(* or poisons it (every later statement and the commit fail, as a          *)
(* PostgreSQL server error does); both outcomes are kept.                  *)
(*                                                                         *)
(* The close-metadata the source returns is taken to be well formed, so    *)
(* the change reader and transaction reader of processLedger do not fail.  *)
(***************************************************************************)
EXTENDS Integers, Sequences, FiniteSets, TLC

(* ------------------------------ bounds --------------------------------- *)

\* Highest ledger sequence the source can yield (the tip of the chain).
MaxLedger == 2

\* Injected failures (fetch errors, end-of-stream before the tip, failed
\* database calls) along one behaviour.
MaxFailures == 1

\* Process restarts (stop, then Start again on the same database).
MaxRestarts == 1

\* Capacity of WebSocketHub.broadcast, scaled down from the 256 of NewIngester.
BroadcastCap == 2

\* The configured Config.StartLedger.
StartLedger == 2

(* ------------------------- the source's ledgers ------------------------ *)

\* xdr.ScAddress: an account or a contract, with its id.
ScAddress(type, id) == [type |-> type, id |-> id]

\* The invoked address of an operation that invokes nothing.
NoAddress == ScAddress("none", "")

\* xdr.Operation as read by processOperation: its body type, its optional
\* source account ("" when op.SourceAccount is nil) and, for an
\* invoke_host_function, the ContractAddress of its InvokeContractArgs.
Op(type, source, address) ==
    [type |-> type, source |-> source, address |-> address]

\* xdr.ContractEvent as read by storeSorobanEvent: ContractId, Type, the
\* number of Body.V0.Topics and Body.V0.Data.
Event(contract, type, ntopics, data) ==
    [contract |-> contract, type |-> type, ntopics |-> ntopics, data |-> data]

\* ingest.LedgerTransaction as read by processTransaction: the result hash,
\* Result.Successful(), UnsafeMeta.V, the envelope's source account and
\* operations, and the events of UnsafeMeta.V3.SorobanMeta.
LedgerTransaction(hash, successful, metaV, source, ops, events) ==
    [hash |-> hash, successful |-> successful, metaV |-> metaV,
     source |-> source, ops |-> ops, events |-> events]

\* Transaction hashes are unique on the chain; ledger seq, index idx.
TxHash(seq, idx) == seq * 10 + idx

\* The transactions of ledger seq, in ledger-index order (index from 1).
\*   seq % 3 = 1: one successful payment, no Soroban meta.
\*   seq % 3 = 2: a successful invocation of contract c1 emitting two events
\*                of that contract with one topic each and different data,
\*                then a failed invocation of c2 whose meta lists an event.
\*   seq % 3 = 0: an empty ledger.
LedgerTransactions(seq) ==
    CASE seq % 3 = 1 ->
           << LedgerTransaction(TxHash(seq, 1), TRUE, 2, "GA",
                                << Op("payment", "", NoAddress) >>, << >>) >>
      [] seq % 3 = 2 ->
           << LedgerTransaction(TxHash(seq, 1), TRUE, 3, "GA",
                                << Op("invoke_host_function", "GB",
                                      ScAddress("contract", "c1")) >>,
                                << Event("c1", "contract", 1, 1),
                                   Event("c1", "contract", 1, 2) >>),
              LedgerTransaction(TxHash(seq, 2), FALSE, 3, "GB",
                                << Op("invoke_host_function", "",
                                      ScAddress("contract", "c2")) >>,
                                << Event("c2", "system", 2, 1) >>) >>
      [] OTHER -> << >>

(* ------------------------------ the tables ----------------------------- *)

EmptyTables ==
    [ledgers |-> {}, transactions |-> {}, operations |-> {},
     contract_events |-> {}, ingestion_state |-> {}]

\* INSERT INTO ledgers ... ON CONFLICT (sequence) DO NOTHING
storeLedger(t, row) ==
    IF \E r \in t.ledgers : r.sequence = row.sequence
    THEN t
    ELSE [t EXCEPT !.ledgers = @ \cup {row}]

\* INSERT INTO transactions ... ON CONFLICT (id) DO UPDATE: the stored row is
\* overwritten by the new one.
InsertTransactionUpsert(t, row) ==
    [t EXCEPT !.transactions = {r \in @ : r.id # row.id} \cup {row}]

\* INSERT INTO transactions ... ON CONFLICT (id) DO NOTHING
InsertTransaction(t, row) ==
    IF \E r \in t.transactions : r.id = row.id
    THEN t
    ELSE [t EXCEPT !.transactions = @ \cup {row}]

\* INSERT INTO operations ... ON CONFLICT (id) DO NOTHING
InsertOperation(t, row) ==
    IF \E r \in t.operations : r.id = row.id
    THEN t
    ELSE [t EXCEPT !.operations = @ \cup {row}]

\* INSERT INTO contract_events ... ON CONFLICT (id) DO NOTHING
InsertContractEvent(t, row) ==
    IF \E r \in t.contract_events : r.id = row.id
    THEN t
    ELSE [t EXCEPT !.contract_events = @ \cup {row}]

\* updateIngestionState with the statement left out: the checkpoint is not
\* written in the unit.
updateIngestionStateSkipped(t, ledger, ts) == t

\* A plain INSERT under a fresh id: every call adds a record.
updateIngestionStateAppending(t, ledger, ts) ==
    [t EXCEPT !.ingestion_state =
        @ \cup {[id |-> Cardinality(@) + 1, last_ledger |-> ledger,
                 updated_at |-> ts]}]

\* INSERT INTO ingestion_state (id, last_ledger, updated_at) VALUES (1, ..)
\* ON CONFLICT (id) DO UPDATE SET last_ledger = EXCLUDED.last_ledger, ...
updateIngestionState(t, ledger, ts) ==
    [t EXCEPT !.ingestion_state =
        {r \in @ : r.id # 1}
            \cup {[id |-> 1, last_ledger |-> ledger, updated_at |-> ts]}]

\* SELECT last_ledger FROM ingestion_state WHERE id = 1; sql.ErrNoRows is 0.
loadLastLedger(t) ==
    IF \E r \in t.ingestion_state : r.id = 1
    THEN (CHOOSE r \in t.ingestion_state : r.id = 1).last_ledger
    ELSE 0

(* ------------------------------- records ------------------------------- *)

\* Sum of len(tx.Operations()) over the ledger's envelopes.
RECURSIVE CountOperations(_)
CountOperations(txs) ==
    IF txs = << >> THEN 0
    ELSE Len(Head(txs).ops) + CountOperations(Tail(txs))

\* models.LedgerInfo built by processLedger.
LedgerInfo(seq) ==
    [sequence |-> seq,
     transaction_count |-> Len(LedgerTransactions(seq)),
     operation_count |-> CountOperations(LedgerTransactions(seq))]

\* models.Transaction built by processTransaction; ID is "%d-%d" of the
\* ledger sequence and the index, CreatedAt is time.Now().
TransactionRecord(seq, idx, tx, ts) ==
    [id |-> <<seq, idx>>, hash |-> tx.hash, ledger |-> seq, index |-> idx,
     source_account |-> tx.source, operation_count |-> Len(tx.ops),
     successful |-> tx.successful, created_at |-> ts]

\* The row of processOperation; opID is "%s-%d" of the transaction id and the
\* index (from 0), sourceAccount stays "" without op.SourceAccount.
OperationRecord(txID, index, op) ==
    [id |-> Append(txID, index), transaction_id |-> txID, index |-> index,
     type |-> op.type, source_account |-> op.source]

\* models.ContractEvent of storeSorobanEvent; eventID is "%s-%d-%s" of the
\* transaction hash, len(topics) and the contract id.
ContractEventRecord(ev, ledger, txHash, successful) ==
    [id |-> <<txHash, ev.ntopics, ev.contract>>, contract_id |-> ev.contract,
     ledger |-> ledger, transaction_hash |-> txHash,
     event_type |-> IF ev.type \in {"contract", "system"} THEN ev.type
                    ELSE "unknown",
     ntopics |-> ev.ntopics, data |-> ev.data,
     in_successful_tx |-> successful]

\* The messages put on wsHub.broadcast: {"type": ..., "data": record}.
Message(type, data) == [type |-> type, data |-> data]

(* ---------------------------- configuration --------------------------- *)

\* The contract addresses that occur: "" is the address of no contract.
Addresses == {"", "c1", "c2", "c3"}

\* Config.FilterContracts as main builds it from FILTER_CONTRACTS or
\* stellar.filter_contracts: filtering is on, for contract c2 alone.
FilterContracts == {"c2"}

(* -------------------------------- state -------------------------------- *)

VARIABLES
    config,         \* Ingester.config: StartLedger, EndLedger, EnableWebSocket,
                    \* FilterContracts
    ledgerBackend,  \* TRUE when Ingester.ledgerBackend is not nil
    db,             \* the committed tables of the database
    dbTx,           \* the open *sql.Tx of processLedger
    pc,             \* where Start / processLedgers / processLedger stands
    currentLedger,  \* Ingester.currentLedger
    stats,          \* Ingester.stats
    ledgerRange,    \* the range given to PrepareRange
    reqSeq,         \* the sequence of the latest GetLedger call (0: none yet)
    txIdx,          \* tx.Index of the transaction being processed
    opIdx,          \* opIndex of the operation being processed
    evIdx,          \* position in SorobanMeta.Events
    transaction,    \* the models.Transaction processTransaction built
    broadcast,      \* WebSocketHub.broadcast
    clients,        \* WebSocketHub.clients with each client's send channel
    closed,         \* the clients whose send channel has been closed, each
                    \* with the case of run that closed it
    hubRunning,     \* the goroutine wsHub.run has been started
    ctxDone,        \* ctx.Done() is closed
    now,            \* time.Now(), counted in process lifetimes
    failBudget,     \* failures the environment can still inject
    restarts,       \* process restarts so far
    committedRun,   \* sequences whose unit committed in this process
    unitErr,        \* a database call of the current unit returned an error
    input,          \* the call of a helper under test: its name and argument
    result,         \* what that call returned, << >> before it returns
    mu,             \* i.mu: the goroutine holding it exclusively (0: none)
                    \* and the goroutines holding it shared
    goroutines,     \* the goroutines that call the Stats helpers and the
                    \* reporting paths: what each runs and where it stands
    refresher,      \* the goroutine of updateStats: "off" before Start,
                    \* "running" in its select, "returned" after ctx.Done()
    hubMu           \* h.mu of the hub: its exclusive holder (0: none) and
                    \* its shared holders

vars == <<config, ledgerBackend, db, dbTx, pc, currentLedger, stats,
          ledgerRange, reqSeq, txIdx, opIdx, evIdx, transaction, broadcast,
          clients, closed, hubRunning, ctxDone, now, failBudget, restarts,
          committedRun, unitErr, input, result, mu, goroutines, refresher,
          hubMu>>

\* A sync.RWMutex (i.mu, h.mu) with no holder.
Unlocked == [writer |-> 0, readers |-> {}]

\* No transaction open.
NoTx == [open |-> FALSE, aborted |-> FALSE, tables |-> EmptyTables]

\* No transaction record built yet.
NoTransaction == [id |-> << >>]

\* models.Stats{StartTime: time.Now()} of NewIngester.
NewStats ==
    [TransactionCount |-> 0, EventCount |-> 0, OperationCount |-> 0,
     CurrentLedger |-> 0, LedgersProcessed |-> 0, LastUpdateTime |-> 0]

\* backends.BoundedRange(from, to) / backends.UnboundedRange(from).
BoundedRange(from, to) == [from |-> from, bounded |-> TRUE, to |-> to]
UnboundedRange(from) == [from |-> from, bounded |-> FALSE, to |-> 0]

\* i.wsHub != nil: NewIngester builds the hub iff cfg.EnableWebSocket.
wsHub == config.EnableWebSocket

\* The ledger being processed: lcm.LedgerSequence() of the ledger GetLedger
\* returned for reqSeq.
ledgerSeq == reqSeq

\* The transactions txReader yields for the ledger being processed.
Txs == LedgerTransactions(ledgerSeq)

\* The process-local state NewIngester builds.
NewProcess ==
    /\ pc = "idle"
    /\ currentLedger = 0
    /\ stats = NewStats
    /\ dbTx = NoTx
    /\ ledgerRange = UnboundedRange(0)
    /\ reqSeq = 0
    /\ txIdx = 0
    /\ opIdx = 0
    /\ evIdx = 0
    /\ transaction = NoTransaction
    /\ broadcast = << >>
    /\ clients = << >>
    /\ closed = << >>
    /\ hubRunning = FALSE
    /\ ctxDone = FALSE
    /\ committedRun = {}
    /\ unitErr = FALSE
    /\ mu = Unlocked
    /\ goroutines = << >>
    /\ refresher = "off"
    /\ hubMu = Unlocked

\* After NewIngester on an empty database.  NewIngester itself leaves
\* ledgerBackend nil; the backend is a field the embedding code sets.
Init ==
    /\ config \in [StartLedger : {StartLedger}, EndLedger : {0},
                   EnableWebSocket : BOOLEAN,
                   FilterContracts : {FilterContracts}]
    /\ ledgerBackend \in BOOLEAN
    /\ db = EmptyTables
    /\ now = 1
    /\ failBudget = MaxFailures
    /\ restarts = 0
    /\ NewProcess
    /\ input = << >>
    /\ result = << >>

(* ------------------------------- Start --------------------------------- *)

\* startLedger of Start: lastLedger + 1 when loadLastLedger returned no error
\* and a positive ledger, else config.StartLedger.
StartLedgerOf(loadOk) ==
    IF loadOk /\ loadLastLedger(db) > 0
    THEN loadLastLedger(db) + 1
    ELSE config.StartLedger

\* ledgerRange of Start.
RangeOf(startLedger) ==
    IF config.EndLedger > 0
    THEN BoundedRange(startLedger, config.EndLedger)
    ELSE UnboundedRange(startLedger)

\* Start without the check of a nil ledgerBackend: it goes on to
\* PrepareRange and starts the loop.
StartWithoutBackendCheck ==
    /\ pc = "idle"
    /\ \E loadOk \in BOOLEAN, prepOk \in BOOLEAN :
         LET cost == (IF loadOk THEN 0 ELSE 1) + (IF prepOk THEN 0 ELSE 1)
         IN  /\ cost <= failBudget
             /\ failBudget' = failBudget - cost
             /\ ledgerRange' = RangeOf(StartLedgerOf(loadOk))
             /\ hubRunning' = (config.EnableWebSocket /\ wsHub)
             /\ refresher' = "running"
             /\ pc' = IF prepOk THEN "loop" ELSE "failed"
    /\ UNCHANGED <<config, ledgerBackend, db, dbTx, currentLedger, stats,
                   reqSeq, txIdx, opIdx, evIdx, transaction, broadcast,
                   clients, closed, ctxDone, now, restarts, committedRun,
                   unitErr, input, result,
                   mu, goroutines,
                   hubMu>>

\* Ingester.Start.  loadOk: loadLastLedger returned no error; prepOk:
\* PrepareRange returned no error.
Start ==
    /\ pc = "idle"
    /\ \E loadOk \in BOOLEAN, prepOk \in BOOLEAN :
         LET cost == (IF loadOk THEN 0 ELSE 1)
                     + (IF ledgerBackend /\ ~prepOk THEN 1 ELSE 0)
         IN  /\ cost <= failBudget
             /\ ledgerBackend \/ prepOk
             /\ failBudget' = failBudget - cost
             /\ ledgerRange' = RangeOf(StartLedgerOf(loadOk))
             /\ hubRunning' = (config.EnableWebSocket /\ wsHub)
             /\ refresher' = "running"
             /\ pc' = IF ~ledgerBackend THEN "skipped"
                      ELSE IF prepOk THEN "loop" ELSE "failed"
    /\ UNCHANGED <<config, ledgerBackend, db, dbTx, currentLedger, stats,
                   reqSeq, txIdx, opIdx, evIdx, transaction, broadcast, clients, closed, ctxDone,
                   now, restarts, committedRun, unitErr,
                   input, result,
                   mu, goroutines,
                   hubMu>>

(* --------------------------- processLedgers ---------------------------- *)

\* The request that skips a ledger.
NextRequestSkipping(cur) == cur + 2

\* The argument of GetLedger: i.getCurrentLedger()+1.  The cursor stays
\* below MaxLedger, far from the width of uint32.
NextRequest(cur) == cur + 1

\* The loop sees ctx.Done() and returns.
CtxDone ==
    /\ pc = "loop"
    /\ ctxDone
    /\ pc' = "stopped"
    /\ UNCHANGED <<config, ledgerBackend, db, dbTx, currentLedger, stats,
                   ledgerRange, reqSeq, txIdx, opIdx, evIdx, transaction, broadcast,
                   clients, closed, hubRunning, ctxDone, now, failBudget, restarts,
                   committedRun, unitErr,
                   input, result,
                   mu, goroutines, refresher, hubMu>>

\* The source can fail a call for a ledger it has only while the budget
\* lasts; past the tip it has nothing but end-of-stream.
FetchCost(seq) == IF seq <= MaxLedger THEN 1 ELSE 0

\* The end-of-stream branch that moves on to the next ledger instead of
\* retrying: setCurrentLedger on the sequence that was asked for.
GetLedgerEOFSkipping ==
    /\ pc = "loop"
    /\ ~ctxDone
    /\ FetchCost(NextRequest(currentLedger)) <= failBudget
    /\ failBudget' = failBudget - FetchCost(NextRequest(currentLedger))
    /\ reqSeq' = NextRequest(currentLedger)
    /\ currentLedger' = NextRequest(currentLedger)
    /\ stats' = [stats EXCEPT !.CurrentLedger = NextRequest(currentLedger)]
    /\ pc' = "sleepEOF"
    /\ UNCHANGED <<config, ledgerBackend, db, dbTx, ledgerRange, txIdx, opIdx,
                   evIdx, transaction, broadcast, clients, closed, hubRunning,
                   ctxDone, now, restarts, committedRun, unitErr,
                   input, result,
                   mu, goroutines, refresher, hubMu>>

\* GetLedger returns io.EOF: sleep 2 s, continue.
GetLedgerEOF ==
    /\ pc = "loop"
    /\ ~ctxDone
    /\ FetchCost(NextRequest(currentLedger)) <= failBudget
    /\ failBudget' = failBudget - FetchCost(NextRequest(currentLedger))
    /\ reqSeq' = NextRequest(currentLedger)
    /\ pc' = "sleepEOF"
    /\ UNCHANGED <<config, ledgerBackend, db, dbTx, currentLedger, stats,
                   ledgerRange, txIdx, opIdx, evIdx, transaction, broadcast, clients, closed,
                   hubRunning, ctxDone, now, restarts, committedRun, unitErr,
                   input, result,
                   mu, goroutines, refresher, hubMu>>

\* GetLedger returns another error: log, sleep 5 s, continue.
GetLedgerError ==
    /\ pc = "loop"
    /\ ~ctxDone
    /\ failBudget > 0
    /\ failBudget' = failBudget - 1
    /\ reqSeq' = NextRequest(currentLedger)
    /\ pc' = "sleepErr"
    /\ UNCHANGED <<config, ledgerBackend, db, dbTx, currentLedger, stats,
                   ledgerRange, txIdx, opIdx, evIdx, transaction, broadcast, clients, closed,
                   hubRunning, ctxDone, now, restarts, committedRun, unitErr,
                   input, result,
                   mu, goroutines, refresher, hubMu>>

\* The loop that gives up after a failed fetch: return instead of continue.
WakeReturning ==
    /\ pc \in {"sleepEOF", "sleepErr"}
    /\ pc' = "stopped"
    /\ UNCHANGED <<config, ledgerBackend, db, dbTx, currentLedger, stats,
                   ledgerRange, reqSeq, txIdx, opIdx, evIdx, transaction,
                   broadcast, clients, closed, hubRunning, ctxDone, now, failBudget,
                   restarts, committedRun, unitErr,
                   input, result,
                   mu, goroutines, refresher, hubMu>>

\* time.Sleep returns and the loop continues.
Wake ==
    /\ pc \in {"sleepEOF", "sleepErr"}
    /\ pc' = "loop"
    /\ UNCHANGED <<config, ledgerBackend, db, dbTx, currentLedger, stats,
                   ledgerRange, reqSeq, txIdx, opIdx, evIdx, transaction, broadcast,
                   clients, closed, hubRunning, ctxDone, now, failBudget, restarts,
                   committedRun, unitErr,
                   input, result,
                   mu, goroutines, refresher, hubMu>>

\* GetLedger returns the close-metadata of the requested ledger.
GetLedgerOK ==
    /\ pc = "loop"
    /\ ~ctxDone
    /\ NextRequest(currentLedger) \in 1..MaxLedger
    /\ reqSeq' = NextRequest(currentLedger)
    /\ unitErr' = FALSE
    /\ pc' = "processLedger"
    /\ UNCHANGED <<config, ledgerBackend, db, dbTx, currentLedger, stats,
                   ledgerRange, txIdx, opIdx, evIdx, transaction, broadcast, clients, closed,
                   hubRunning, ctxDone, now, failBudget, restarts,
                   committedRun,
                   input, result,
                   mu, goroutines, refresher, hubMu>>

(* ---------------------------- processLedger ---------------------------- *)

\* What a statement on dbTx can return: "ok"; "fail", an error that leaves
\* the transaction usable; "abort", an error that poisons it; "dead", the
\* error every statement gets once the transaction is poisoned.
ExecResults ==
    IF dbTx.aborted THEN {"dead"}
    ELSE {"ok"} \cup (IF failBudget > 0 THEN {"fail", "abort"} ELSE {})

ExecCost(r) == IF r \in {"fail", "abort"} THEN 1 ELSE 0

\* dbTx after a statement that returned r and, when r is "ok", left the
\* transaction's tables as t.
Exec(r, t) ==
    [open |-> TRUE,
     aborted |-> dbTx.aborted \/ r = "abort",
     tables |-> IF r = "ok" THEN t ELSE dbTx.tables]

\* The error branch of the loop without its continue: the deferred Rollback
\* drops the transaction, but the loop falls through to setCurrentLedger and
\* incrementLedgersProcessed.
ReturnErrorAdvancing ==
    /\ dbTx' = NoTx
    /\ pc' = "loop"
    /\ currentLedger' = ledgerSeq
    /\ stats' = [stats EXCEPT !.CurrentLedger = ledgerSeq,
                              !.LedgersProcessed = @ + 1]
    /\ txIdx' = 0
    /\ opIdx' = 0
    /\ evIdx' = 0
    /\ transaction' = NoTransaction

\* An error branch that also takes the counters back to what the database
\* holds.
ReturnErrorRecounting ==
    /\ dbTx' = NoTx
    /\ pc' = "loop"
    /\ currentLedger' = currentLedger
    /\ stats' = [stats EXCEPT
                    !.TransactionCount = Cardinality(db.transactions),
                    !.OperationCount = Cardinality(db.operations),
                    !.EventCount = Cardinality(db.contract_events)]
    /\ txIdx' = 0
    /\ opIdx' = 0
    /\ evIdx' = 0
    /\ transaction' = NoTransaction

\* processLedger returns an error and the loop continues without advancing:
\* the deferred Rollback drops the transaction, the cursor and the ledger
\* counter are left alone.
ReturnError ==
    /\ dbTx' = NoTx
    /\ pc' = "loop"
    /\ currentLedger' = currentLedger
    /\ stats' = stats
    /\ txIdx' = 0
    /\ opIdx' = 0
    /\ evIdx' = 0
    /\ transaction' = NoTransaction

\* Where processLedger goes after the transaction at index idx: the next
\* transaction txReader yields, or past the loop on io.EOF.
AfterTransaction(idx) ==
    IF idx < Len(Txs) THEN "processTransaction" ELSE "updateIngestionState"

\* i.db.Begin().
Begin ==
    /\ pc = "processLedger"
    /\ \E ok \in BOOLEAN :
         IF ok
         THEN /\ dbTx' = [open |-> TRUE, aborted |-> FALSE, tables |-> db]
              /\ pc' = "storeLedger"
              /\ UNCHANGED <<failBudget, unitErr, currentLedger, stats,
                             txIdx, opIdx, evIdx, transaction>>
         ELSE /\ failBudget > 0
              /\ failBudget' = failBudget - 1
              /\ unitErr' = TRUE
              /\ ReturnError
    /\ UNCHANGED <<config, ledgerBackend, db, ledgerRange, reqSeq, broadcast,
                   clients, closed, hubRunning, ctxDone, now, restarts, committedRun,
                   input, result,
                   mu, goroutines, refresher, hubMu>>

\* i.storeLedger(dbTx, ledgerInfo); an error is returned.
StoreLedger ==
    /\ pc = "storeLedger"
    /\ \E r \in ExecResults :
         /\ failBudget' = failBudget - ExecCost(r)
         /\ IF r = "ok"
            THEN /\ dbTx' = Exec(r, storeLedger(dbTx.tables,
                                                LedgerInfo(ledgerSeq)))
                 /\ txIdx' = 1
                 /\ pc' = AfterTransaction(0)
                 /\ UNCHANGED <<unitErr, currentLedger, stats, opIdx, evIdx,
                                transaction>>
            ELSE /\ unitErr' = TRUE
                 /\ ReturnError
    /\ UNCHANGED <<config, ledgerBackend, db, ledgerRange, reqSeq, broadcast,
                   clients, closed, hubRunning, ctxDone, now, restarts, committedRun,
                   input, result,
                   mu, goroutines, refresher, hubMu>>

\* AfterOperations without the check of Result.Successful(): the events of
\* a failed transaction are stored too.
AfterOperationsIgnoringSuccess(tx) ==
    IF tx.metaV = 3 /\ Len(tx.events) > 0
    THEN "storeSorobanEvent"
    ELSE "txDone"

\* Where processTransaction goes after its operations: into
\* processSorobanEvents when the meta is V3, the transaction successful and
\* events are listed; else to its end.
AfterOperations(tx) ==
    IF tx.metaV = 3 /\ tx.successful /\ Len(tx.events) > 0
    THEN "storeSorobanEvent"
    ELSE "txDone"

\* processTransaction up to its INSERT; an error is returned to
\* processLedger, which logs it and reads the next transaction.
ProcessTransaction ==
    /\ pc = "processTransaction"
    /\ LET tx == Txs[txIdx]
           rec == TransactionRecord(ledgerSeq, txIdx, tx, now)
       IN  \E r \in ExecResults :
             /\ failBudget' = failBudget - ExecCost(r)
             /\ dbTx' = Exec(r, InsertTransaction(dbTx.tables, rec))
             /\ IF r = "ok"
                THEN /\ transaction' = rec
                     /\ opIdx' = 0
                     /\ evIdx' = 1
                     /\ pc' = IF Len(tx.ops) > 0 THEN "processOperation"
                              ELSE AfterOperations(tx)
                     /\ UNCHANGED <<unitErr, txIdx>>
                ELSE /\ unitErr' = TRUE
                     /\ txIdx' = txIdx + 1
                     /\ pc' = AfterTransaction(txIdx)
                     /\ UNCHANGED <<transaction, opIdx, evIdx>>
    /\ UNCHANGED <<config, ledgerBackend, db, currentLedger, stats,
                   ledgerRange, reqSeq, broadcast, clients, closed, hubRunning,
                   ctxDone, now, restarts, committedRun,
                   input, result,
                   mu, goroutines, refresher, hubMu>>

\* processOperation for the operation at opIdx; its error is logged by
\* processTransaction.
ProcessOperation ==
    /\ pc = "processOperation"
    /\ LET tx == Txs[txIdx]
           rec == OperationRecord(transaction.id, opIdx, tx.ops[opIdx + 1])
       IN  \E r \in ExecResults :
             /\ failBudget' = failBudget - ExecCost(r)
             /\ dbTx' = Exec(r, InsertOperation(dbTx.tables, rec))
             /\ unitErr' = (unitErr \/ r # "ok")
             /\ stats' = IF r = "ok"
                         THEN [stats EXCEPT !.OperationCount = @ + 1]
                         ELSE stats
             /\ opIdx' = opIdx + 1
             /\ pc' = IF opIdx + 1 < Len(tx.ops) THEN "processOperation"
                      ELSE AfterOperations(tx)
    /\ UNCHANGED <<config, ledgerBackend, db, currentLedger, ledgerRange,
                   reqSeq, txIdx, evIdx, transaction, broadcast, clients, closed,
                   hubRunning, ctxDone, now, restarts, committedRun,
                   input, result,
                   mu, goroutines, refresher, hubMu>>

\* The record storeSorobanEvent builds for the event at evIdx:
\* processSorobanEvents passes i.getCurrentLedger() as its ledger.
CurrentEvent ==
    ContractEventRecord(Txs[txIdx].events[evIdx], currentLedger,
                        Txs[txIdx].hash, TRUE)

\* Past the event at evIdx: the next event, or the end of processTransaction.
AfterEvent ==
    /\ evIdx' = evIdx + 1
    /\ pc' = IF evIdx < Len(Txs[txIdx].events) THEN "storeSorobanEvent"
             ELSE "txDone"

\* storeSorobanEvent up to its INSERT and incrementEventCount; an error is
\* logged by processSorobanEvents.
StoreSorobanEvent ==
    /\ pc = "storeSorobanEvent"
    /\ \E r \in ExecResults :
         /\ failBudget' = failBudget - ExecCost(r)
         /\ dbTx' = Exec(r, InsertContractEvent(dbTx.tables, CurrentEvent))
         /\ unitErr' = (unitErr \/ r # "ok")
         /\ IF r = "ok"
            THEN /\ stats' = [stats EXCEPT !.EventCount = @ + 1]
                 /\ IF wsHub
                    THEN pc' = "sendEvent" /\ evIdx' = evIdx
                    ELSE AfterEvent
            ELSE /\ stats' = stats
                 /\ AfterEvent
    /\ UNCHANGED <<config, ledgerBackend, db, currentLedger, ledgerRange,
                   reqSeq, txIdx, opIdx, transaction, broadcast, clients, closed,
                   hubRunning, ctxDone, now, restarts, committedRun,
                   input, result,
                   mu, goroutines, refresher, hubMu>>

\* i.wsHub.broadcast <- {"type": "contract_event", ...}: blocks while the
\* channel is full.
SendEvent ==
    /\ pc = "sendEvent"
    /\ Len(broadcast) < BroadcastCap
    /\ broadcast' = Append(broadcast, Message("contract_event", CurrentEvent))
    /\ AfterEvent
    /\ UNCHANGED <<config, ledgerBackend, db, dbTx, currentLedger, stats,
                   ledgerRange, reqSeq, txIdx, opIdx, transaction, clients, closed,
                   hubRunning, ctxDone, now, failBudget, restarts,
                   committedRun, unitErr,
                   input, result,
                   mu, goroutines, refresher, hubMu>>

\* The end of processTransaction: incrementTransactionCount, then the
\* broadcast when there is a hub.
FinishTransaction ==
    /\ pc = "txDone"
    /\ stats' = [stats EXCEPT !.TransactionCount = @ + 1]
    /\ IF wsHub
       THEN pc' = "sendTransaction" /\ txIdx' = txIdx
       ELSE pc' = AfterTransaction(txIdx) /\ txIdx' = txIdx + 1
    /\ UNCHANGED <<config, ledgerBackend, db, dbTx, currentLedger,
                   ledgerRange, reqSeq, opIdx, evIdx, transaction, broadcast,
                   clients, closed, hubRunning, ctxDone, now, failBudget, restarts,
                   committedRun, unitErr,
                   input, result,
                   mu, goroutines, refresher, hubMu>>

\* i.wsHub.broadcast <- {"type": "transaction", "data": transaction}.
SendTransaction ==
    /\ pc = "sendTransaction"
    /\ Len(broadcast) < BroadcastCap
    /\ broadcast' = Append(broadcast, Message("transaction", transaction))
    /\ pc' = AfterTransaction(txIdx)
    /\ txIdx' = txIdx + 1
    /\ UNCHANGED <<config, ledgerBackend, db, dbTx, currentLedger, stats,
                   ledgerRange, reqSeq, opIdx, evIdx, transaction, clients, closed,
                   hubRunning, ctxDone, now, failBudget, restarts,
                   committedRun, unitErr,
                   input, result,
                   mu, goroutines, refresher, hubMu>>

\* i.updateIngestionState(dbTx, ledgerSeq); an error is returned.
UpdateIngestionState ==
    /\ pc = "updateIngestionState"
    /\ \E r \in ExecResults :
         /\ failBudget' = failBudget - ExecCost(r)
         /\ IF r = "ok"
            THEN /\ dbTx' = Exec(r, updateIngestionState(dbTx.tables,
                                                         ledgerSeq, now))
                 /\ pc' = "commit"
                 /\ UNCHANGED <<unitErr, currentLedger, stats, txIdx, opIdx,
                                evIdx, transaction>>
            ELSE /\ unitErr' = TRUE
                 /\ ReturnError
    /\ UNCHANGED <<config, ledgerBackend, db, ledgerRange, reqSeq, broadcast,
                   clients, closed, hubRunning, ctxDone, now, restarts, committedRun,
                   input, result,
                   mu, goroutines, refresher, hubMu>>

\* dbTx.Commit(): the tables of the transaction become the committed ones,
\* or an error is returned and nothing of the unit is kept.
Commit ==
    /\ pc = "commit"
    /\ \E ok \in BOOLEAN :
         IF ok
         THEN /\ ~dbTx.aborted
              /\ db' = dbTx.tables
              /\ dbTx' = NoTx
              /\ committedRun' = committedRun \cup {ledgerSeq}
              /\ pc' = IF wsHub THEN "sendLedger" ELSE "advance"
              /\ UNCHANGED <<failBudget, unitErr, currentLedger, stats,
                             txIdx, opIdx, evIdx, transaction>>
         ELSE /\ dbTx.aborted \/ failBudget > 0
              /\ failBudget' = IF dbTx.aborted THEN failBudget
                               ELSE failBudget - 1
              /\ unitErr' = TRUE
              /\ ReturnError
              /\ UNCHANGED <<db, committedRun>>
    /\ UNCHANGED <<config, ledgerBackend, ledgerRange, reqSeq, broadcast,
                   clients, closed, hubRunning, ctxDone, now, restarts,
                   input, result,
                   mu, goroutines, refresher, hubMu>>

\* i.wsHub.broadcast <- {"type": "ledger", "data": ledgerInfo}.
SendLedger ==
    /\ pc = "sendLedger"
    /\ Len(broadcast) < BroadcastCap
    /\ broadcast' = Append(broadcast, Message("ledger", LedgerInfo(ledgerSeq)))
    /\ pc' = "advance"
    /\ UNCHANGED <<config, ledgerBackend, db, dbTx, currentLedger, stats,
                   ledgerRange, reqSeq, txIdx, opIdx, evIdx, transaction,
                   clients, closed, hubRunning, ctxDone, now, failBudget, restarts,
                   committedRun, unitErr,
                   input, result,
                   mu, goroutines, refresher, hubMu>>

\* setCurrentLedger without its second assignment: the cursor moves and
\* stats.CurrentLedger stays.
AdvanceCursorNotStats ==
    /\ pc = "advance"
    /\ currentLedger' = ledgerSeq
    /\ stats' = [stats EXCEPT !.LedgersProcessed = @ + 1]
    /\ pc' = "loop"
    /\ txIdx' = 0
    /\ opIdx' = 0
    /\ evIdx' = 0
    /\ transaction' = NoTransaction
    /\ UNCHANGED <<config, ledgerBackend, db, dbTx, ledgerRange, reqSeq,
                   broadcast, clients, closed, hubRunning, ctxDone, now,
                   failBudget, restarts, committedRun, unitErr,
                   input, result,
                   mu, goroutines, refresher, hubMu>>

\* processLedger returned nil: setCurrentLedger(lcm.LedgerSequence()) and
\* incrementLedgersProcessed.
AdvanceCursor ==
    /\ pc = "advance"
    /\ currentLedger' = ledgerSeq
    /\ stats' = [stats EXCEPT !.CurrentLedger = ledgerSeq,
                              !.LedgersProcessed = @ + 1]
    /\ pc' = "loop"
    /\ txIdx' = 0
    /\ opIdx' = 0
    /\ evIdx' = 0
    /\ transaction' = NoTransaction
    /\ UNCHANGED <<config, ledgerBackend, db, dbTx, ledgerRange, reqSeq,
                   broadcast, clients, closed, hubRunning, ctxDone, now, failBudget,
                   restarts, committedRun, unitErr,
                   input, result,
                   mu, goroutines, refresher, hubMu>>

(* ------------------------- hub, ticker, context ------------------------ *)

\* Capacity of a client's send channel, scaled down from the 256 of the
\* clients the hub is used with.
SendCap == 2

\* Connections that can subscribe during one process.
MaxClients == 2

Clients == 1..MaxClients

\* The select of the broadcast case: the clients whose send channel takes
\* the message; the others hit the default branch.
HasRoom(cs) == {c \in DOMAIN cs : Len(cs[c]) < SendCap}

\* close(client.send) for the clients cs in the case by of run; the close
\* of a channel that is closed already panics.
Close(cl, cs, by) ==
    [c \in DOMAIN cl \cup cs |->
        IF c \notin cs THEN cl[c]
        ELSE IF c \in DOMAIN cl THEN "panic" ELSE by]

\* FanOut that keeps a client whose channel is full and passes it by.
FanOutKeepingFull(cs, message) ==
    [c \in DOMAIN cs |-> IF c \in HasRoom(cs) THEN Append(cs[c], message)
                         ELSE cs[c]]

\* FanOut that puts the message at the head of the client's channel.
FanOutReordering(cs, message) ==
    [c \in HasRoom(cs) |-> <<message>> \o cs[c]]

\* The broadcast case of WebSocketHub.run: the message goes to every client
\* whose send channel has room; a client whose channel is full is deleted
\* from the set and its channel closed.
FanOut(cs, message) ==
    [c \in HasRoom(cs) |-> Append(cs[c], message)]

\* WebSocketHub.run takes a message from h.broadcast.
HubBroadcast ==
    /\ hubRunning
    /\ broadcast # << >>
    /\ clients' = FanOut(clients, Head(broadcast))
    /\ closed' = Close(closed, DOMAIN clients \ DOMAIN clients', "broadcast")
    /\ broadcast' = Tail(broadcast)
    /\ UNCHANGED <<config, ledgerBackend, db, dbTx, pc, currentLedger, stats,
                   ledgerRange, reqSeq, txIdx, opIdx, evIdx, transaction,
                   hubRunning, ctxDone, now, failBudget, restarts,
                   committedRun, unitErr,
                   input, result,
                   mu, goroutines, refresher, hubMu>>

\* The register case of WebSocketHub.run: a new connection's client, with
\* its empty send channel, is put into h.clients.
RegisterClient ==
    /\ hubRunning
    /\ \E c \in Clients \ (DOMAIN clients \cup DOMAIN closed) :
         clients' = [d \in DOMAIN clients \cup {c} |->
                        IF d = c THEN << >> ELSE clients[d]]
    /\ UNCHANGED <<config, ledgerBackend, db, dbTx, pc, currentLedger, stats,
                   ledgerRange, reqSeq, txIdx, opIdx, evIdx, transaction,
                   broadcast, closed, hubRunning, ctxDone, now, failBudget,
                   restarts, committedRun, unitErr,
                   input, result,
                   mu, goroutines, refresher, hubMu>>

\* An unregister case that closes the send channel and leaves the client in
\* h.clients.
UnregisterClientKeeping ==
    /\ hubRunning
    /\ \E c \in DOMAIN clients \ DOMAIN closed :
         closed' = Close(closed, {c}, "unregister")
    /\ UNCHANGED <<config, ledgerBackend, db, dbTx, pc, currentLedger, stats,
                   ledgerRange, reqSeq, txIdx, opIdx, evIdx, transaction,
                   broadcast, clients, hubRunning, ctxDone, now, failBudget,
                   restarts, committedRun, unitErr,
                   input, result,
                   mu, goroutines, refresher, hubMu>>

\* An unregister case without the membership test: the client is deleted and
\* its send channel closed whether it is in h.clients or not.
UnregisterClientUnguarded ==
    /\ hubRunning
    /\ \E c \in Clients :
         /\ clients' = [d \in DOMAIN clients \ {c} |-> clients[d]]
         /\ closed' = Close(closed, {c}, "unregister")
    /\ UNCHANGED <<config, ledgerBackend, db, dbTx, pc, currentLedger, stats,
                   ledgerRange, reqSeq, txIdx, opIdx, evIdx, transaction,
                   broadcast, hubRunning, ctxDone, now, failBudget,
                   restarts, committedRun, unitErr,
                   input, result,
                   mu, goroutines, refresher, hubMu>>

\* The unregister case of WebSocketHub.run, for the client of any connection:
\* a client found in h.clients is deleted and its send channel closed, and
\* for any other client nothing is done.
UnregisterClient ==
    /\ hubRunning
    /\ \E c \in Clients :
         IF c \in DOMAIN clients
         THEN /\ clients' = [d \in DOMAIN clients \ {c} |-> clients[d]]
              /\ closed' = Close(closed, {c}, "unregister")
         ELSE UNCHANGED <<clients, closed>>
    /\ UNCHANGED <<config, ledgerBackend, db, dbTx, pc, currentLedger, stats,
                   ledgerRange, reqSeq, txIdx, opIdx, evIdx, transaction,
                   broadcast, hubRunning, ctxDone, now, failBudget,
                   restarts, committedRun, unitErr,
                   input, result,
                   mu, goroutines, refresher, hubMu>>

\* A registered client takes the oldest message from its send channel.
ClientReceive ==
    /\ \E c \in DOMAIN clients :
         /\ clients[c] # << >>
         /\ clients' = [clients EXCEPT ![c] = Tail(@)]
    /\ UNCHANGED <<config, ledgerBackend, db, dbTx, pc, currentLedger, stats,
                   ledgerRange, reqSeq, txIdx, opIdx, evIdx, transaction,
                   broadcast, closed, hubRunning, ctxDone, now, failBudget,
                   restarts, committedRun, unitErr,
                   input, result,
                   mu, goroutines, refresher, hubMu>>

\* A ticker case that also refreshes the ledger counter from the database.
UpdateStatsRecounting ==
    /\ refresher = "running"
    /\ stats' = [stats EXCEPT !.LastUpdateTime = now,
                              !.LedgersProcessed = Cardinality(db.ledgers)]
    /\ refresher' = IF ctxDone THEN "returned" ELSE "running"
    /\ UNCHANGED <<config, ledgerBackend, db, dbTx, pc, currentLedger,
                   ledgerRange, reqSeq, txIdx, opIdx, evIdx, transaction,
                   broadcast, clients, closed, hubRunning, ctxDone, now,
                   failBudget, restarts, committedRun, unitErr,
                   input, result,
                   mu, goroutines,
                   hubMu>>

\* Ingester.updateStats, the ticker case of its select: LastUpdateTime is
\* set to time.Now().  The select takes either ready case, so a tick that is
\* ready when the context is cancelled can still be handled; the select after
\* it finds only ctx.Done() ready and returns.
UpdateStats ==
    /\ refresher = "running"
    /\ stats' = [stats EXCEPT !.LastUpdateTime = now]
    /\ refresher' = IF ctxDone THEN "returned" ELSE "running"
    /\ UNCHANGED <<config, ledgerBackend, db, dbTx, pc, currentLedger,
                   ledgerRange, reqSeq, txIdx, opIdx, evIdx, transaction,
                   broadcast, clients, closed, hubRunning, ctxDone, now, failBudget,
                   restarts, committedRun, unitErr,
                   input, result,
                   mu, goroutines,
                   hubMu>>

\* Ingester.updateStats, the ctx.Done() case of its select: return.
UpdateStatsReturn ==
    /\ refresher = "running"
    /\ ctxDone
    /\ refresher' = "returned"
    /\ UNCHANGED <<config, ledgerBackend, db, dbTx, pc, currentLedger, stats,
                   ledgerRange, reqSeq, txIdx, opIdx, evIdx, transaction,
                   broadcast, clients, closed, hubRunning, ctxDone, now,
                   failBudget, restarts, committedRun, unitErr,
                   input, result,
                   mu, goroutines,
                   hubMu>>

\* The context given to Start is cancelled.
Cancel ==
    /\ pc \notin {"idle", "skipped", "failed", "stopped"}
    /\ ~ctxDone
    /\ ctxDone' = TRUE
    /\ UNCHANGED <<config, ledgerBackend, db, dbTx, pc, currentLedger, stats,
                   ledgerRange, reqSeq, txIdx, opIdx, evIdx, transaction,
                   broadcast, clients, closed, hubRunning, now, failBudget, restarts,
                   committedRun, unitErr,
                   input, result,
                   mu, goroutines, refresher, hubMu>>

\* The stopped process is replaced by a new one on the same database with
\* the same configuration: NewIngester again, at a later time.
Restart ==
    /\ pc = "stopped"
    /\ restarts < MaxRestarts
    /\ restarts' = restarts + 1
    /\ pc' = "idle"
    /\ currentLedger' = 0
    /\ stats' = NewStats
    /\ dbTx' = NoTx
    /\ ledgerRange' = UnboundedRange(0)
    /\ reqSeq' = 0
    /\ txIdx' = 0
    /\ opIdx' = 0
    /\ evIdx' = 0
    /\ transaction' = NoTransaction
    /\ broadcast' = << >>
    /\ clients' = << >>
    /\ closed' = << >>
    /\ hubRunning' = FALSE
    /\ ctxDone' = FALSE
    /\ committedRun' = {}
    /\ unitErr' = FALSE
    /\ now' = now + 1
    /\ refresher' = "off"
    /\ UNCHANGED <<config, ledgerBackend, db, failBudget,
                   input, result,
                   mu, goroutines,
                   hubMu>>

(* --------------------------- contract filter --------------------------- *)

\* Ingester.extractContractAddress: the hex contract id of a contract
\* address, "" for any other address.
extractContractAddress(address) ==
    IF address.type = "contract" THEN address.id ELSE ""

\* isFilteredContract letting the empty address pass when no filter is set.
isFilteredContractEmptyPasses(address) ==
    config.FilterContracts = {} \/ address \in config.FilterContracts

\* isFilteredContract that never consults the configured set.
isFilteredContractNoMembership(address) == address # ""

\* Ingester.isFilteredContract: is the address allowed by the configured
\* filter?  The empty address never is; with no filter every other address
\* is; with a filter the members of the set are.
isFilteredContract(address) ==
    /\ address # ""
    /\ config.FilterContracts = {} \/ address \in config.FilterContracts

\* The call result := ingester.isFilteredContract(contractAddress).
IsFilteredContract ==
    /\ input # << >>
    /\ input[1] = "isFilteredContract"
    /\ result = << >>
    /\ result' = <<isFilteredContract(input[2])>>
    /\ UNCHANGED <<config, ledgerBackend, db, dbTx, pc, currentLedger, stats,
                   ledgerRange, reqSeq, txIdx, opIdx, evIdx, transaction,
                   broadcast, clients, closed, hubRunning, ctxDone, now,
                   failBudget, restarts, committedRun, unitErr, input,
                   mu, goroutines, refresher, hubMu>>

(* ---------------------------- value decoder ---------------------------- *)

\* Longest vector or map of the contract values that are decoded.
MaxLen == 2

\* A string is the sequence of its characters.
DecimalDigits == <<"0", "1", "2", "3", "4", "5", "6", "7", "8", "9">>

HexDigits ==
    DecimalDigits \o <<"a", "b", "c", "d", "e", "f">>

\* The byte of a character of a symbol or string.
CharCode(c) ==
    CASE c = "1" -> 49
      [] c = "a" -> 97
      [] c = "b" -> 98
      [] OTHER -> 63

\* []byte(s) of a symbol or string.
StringBytes(s) == [i \in 1..Len(s) |-> CharCode(s[i])]

\* xdr.ScVal: the union's Type and the value of its arm.
ScVal(type, value) == [type |-> type, value |-> value]

\* xdr.ScMapEntry.
ScMapEntry(key, val) == [Key |-> key, Val |-> val]

\* The arms scValToString and scValToJSON have a case for.
StringCases ==
    {"ScvBool", "ScvI32", "ScvI64", "ScvU32", "ScvU64", "ScvSymbol",
     "ScvString", "ScvBytes"}

JSONCases == StringCases \cup {"ScvVec", "ScvMap"}

\* fmt.Sprintf("%d", n) of a non-negative n.
RECURSIVE Digits(_)
Digits(n) ==
    IF n < 10 THEN <<DecimalDigits[n + 1]>>
    ELSE Digits(n \div 10) \o <<DecimalDigits[(n % 10) + 1]>>

\* fmt.Sprintf("%d", n).
Decimal(n) == IF n < 0 THEN <<"-">> \o Digits(0 - n) ELSE Digits(n)

\* fmt.Sprintf("%X", data): the hex form in upper case.
RECURSIVE HexUpper(_)
HexUpper(data) ==
    LET upper == DecimalDigits \o <<"A", "B", "C", "D", "E", "F">>
    IN  IF data = << >> THEN << >>
        ELSE <<upper[(Head(data) \div 16) + 1],
               upper[(Head(data) % 16) + 1]>> \o HexUpper(Tail(data))

\* fmt.Sprintf("%x", data): two lower-case hex digits per byte.
RECURSIVE Hex(_)
Hex(data) ==
    IF data = << >> THEN << >>
    ELSE <<HexDigits[(Head(data) \div 16) + 1],
           HexDigits[(Head(data) % 16) + 1]>> \o Hex(Tail(data))

\* The big-endian bytes the XDR encoding writes for an unsigned and a signed
\* 32-bit and 64-bit integer (the values decoded here are below 2^15 in size).
Uint32Bytes(n) ==
    <<(n \div 16777216) % 256, (n \div 65536) % 256, (n \div 256) % 256,
      n % 256>>

Int32Bytes(n) ==
    IF n >= 0 THEN Uint32Bytes(n)
    ELSE <<255, 255, ((n + 65536) \div 256) % 256, (n + 65536) % 256>>

Uint64Bytes(n) == <<0, 0, 0, 0>> \o Uint32Bytes(n)

Int64Bytes(n) ==
    IF n >= 0 THEN Uint64Bytes(n) ELSE <<255, 255, 255, 255>> \o Int32Bytes(n)

\* A variable-length opaque: its length, its bytes, zero padding to 4 bytes.
Opaque(data) ==
    Uint32Bytes(Len(data)) \o data
        \o [k \in 1..((4 - (Len(data) % 4)) % 4) |-> 0]

\* The discriminant of each arm of the ScVal union.
ScValType(type) ==
    CASE type = "ScvBool" -> 0
      [] type = "ScvVoid" -> 1
      [] type = "ScvU32" -> 3
      [] type = "ScvI32" -> 4
      [] type = "ScvU64" -> 5
      [] type = "ScvI64" -> 6
      [] type = "ScvTimepoint" -> 7
      [] type = "ScvDuration" -> 8
      [] type = "ScvBytes" -> 13
      [] type = "ScvString" -> 14
      [] type = "ScvSymbol" -> 15
      [] type = "ScvVec" -> 16
      [] type = "ScvMap" -> 17

\* val.MarshalBinary(): the XDR encoding of the value.
RECURSIVE MarshalBinary(_)
RECURSIVE MarshalAll(_)
MarshalAll(vals) ==
    IF vals = << >> THEN << >>
    ELSE MarshalBinary(Head(vals)) \o MarshalAll(Tail(vals))

RECURSIVE MarshalEntries(_)
MarshalEntries(entries) ==
    IF entries = << >> THEN << >>
    ELSE MarshalBinary(Head(entries).Key) \o MarshalBinary(Head(entries).Val)
             \o MarshalEntries(Tail(entries))

MarshalBinary(val) ==
    Uint32Bytes(ScValType(val.type)) \o
    CASE val.type = "ScvBool" -> Uint32Bytes(IF val.value THEN 1 ELSE 0)
      [] val.type = "ScvVoid" -> << >>
      [] val.type = "ScvU32" -> Uint32Bytes(val.value)
      [] val.type = "ScvI32" -> Int32Bytes(val.value)
      [] val.type \in {"ScvU64", "ScvTimepoint", "ScvDuration"} ->
            Uint64Bytes(val.value)
      [] val.type = "ScvI64" -> Int64Bytes(val.value)
      [] val.type = "ScvBytes" -> Opaque(val.value)
      [] val.type \in {"ScvString", "ScvSymbol"} ->
            Opaque(StringBytes(val.value))
      [] val.type = "ScvVec" ->
            Uint32Bytes(1) \o Uint32Bytes(Len(val.value))
                \o MarshalAll(val.value)
      [] val.type = "ScvMap" ->
            Uint32Bytes(1) \o Uint32Bytes(Len(val.value))
                \o MarshalEntries(val.value)

\* scValToString: the canonical string form of a contract value.
scValToString(val) ==
    CASE val.type = "ScvBool" ->
            IF val.value THEN <<"t", "r", "u", "e">>
            ELSE <<"f", "a", "l", "s", "e">>
      [] val.type \in {"ScvI32", "ScvI64", "ScvU32", "ScvU64"} ->
            Decimal(val.value)
      [] val.type \in {"ScvSymbol", "ScvString"} -> val.value
      [] val.type = "ScvBytes" -> Hex(val.value)
      [] OTHER -> Hex(MarshalBinary(val))

\* A value of the tree scValToJSON returns: the Go type and the value.
JSON(kind, v) == [kind |-> kind, v |-> v]

\* The entry whose value a key of the map ends with: the loop assigns
\* result[key] entry by entry, so the last entry of a key stays.
LastEntry(m, key) ==
    CHOOSE k \in 1..Len(m) :
        /\ scValToString(m[k].Key) = key
        /\ \A j \in (k + 1)..Len(m) : scValToString(m[j].Key) # key

\* scValToJSON: the structured form of a contract value.
RECURSIVE scValToJSON(_)
scValToJSON(val) ==
    CASE val.type = "ScvBool" -> JSON("bool", val.value)
      [] val.type = "ScvI32" -> JSON("Int32", val.value)
      [] val.type = "ScvI64" -> JSON("Int64", val.value)
      [] val.type = "ScvU32" -> JSON("Uint32", val.value)
      [] val.type = "ScvU64" -> JSON("Uint64", val.value)
      [] val.type \in {"ScvSymbol", "ScvString"} -> JSON("string", val.value)
      [] val.type = "ScvBytes" -> JSON("string", Hex(val.value))
      [] val.type = "ScvVec" ->
            JSON("array",
                 [idx \in 1..Len(val.value) |-> scValToJSON(val.value[idx])])
      [] val.type = "ScvMap" ->
            JSON("object",
                 [key \in {scValToString(val.value[k].Key) :
                               k \in 1..Len(val.value)} |->
                     scValToJSON(val.value[LastEntry(val.value, key)].Val)])
      [] OTHER -> JSON("string", Hex(MarshalBinary(val)))

\* The contract values that are decoded: the scalars of every arm with a
\* case, arms without one, vectors and maps of them up to MaxLen, and
\* vectors and maps that hold vectors and maps.
Scalars ==
    {ScVal("ScvBool", TRUE), ScVal("ScvBool", FALSE), ScVal("ScvI32", 42),
     ScVal("ScvI32", 1), ScVal("ScvI32", -7), ScVal("ScvI64", -1234),
     ScVal("ScvU32", 0), ScVal("ScvU64", 300), ScVal("ScvSymbol", <<"1">>),
     ScVal("ScvSymbol", <<"a", "b">>), ScVal("ScvString", <<"a">>),
     ScVal("ScvString", << >>), ScVal("ScvBytes", <<1, 171>>)}

Unrecognized ==
    {ScVal("ScvVoid", << >>), ScVal("ScvTimepoint", 5),
     ScVal("ScvDuration", 258)}

MapKeys ==
    {ScVal("ScvSymbol", <<"1">>), ScVal("ScvI32", 1),
     ScVal("ScvSymbol", <<"a", "b">>), ScVal("ScvVoid", << >>)}

MapVals ==
    {ScVal("ScvI32", 42), ScVal("ScvBool", TRUE), ScVal("ScvVoid", << >>)}

SeqsUpTo(S, n) == UNION {[1..k -> S] : k \in 0..n}

Flat ==
    {ScVal("ScvVec", s) : s \in SeqsUpTo(Scalars \cup Unrecognized, MaxLen)}
        \cup {ScVal("ScvMap", m) :
                  m \in SeqsUpTo({ScMapEntry(k, v) :
                                      k \in MapKeys, v \in MapVals}, MaxLen)}

Nested ==
    {ScVal("ScvVec", <<ScVal("ScvVec", <<ScVal("ScvI32", 1)>>),
                       ScVal("ScvMap", << >>)>>),
     ScVal("ScvMap",
           <<ScMapEntry(ScVal("ScvVec", <<ScVal("ScvI32", 1)>>),
                        ScVal("ScvVec", <<ScVal("ScvSymbol", <<"a">>)>>)),
             ScMapEntry(ScVal("ScvMap", << >>),
                        ScVal("ScvMap",
                              <<ScMapEntry(ScVal("ScvSymbol", <<"a">>),
                                           ScVal("ScvTimepoint", 5))>>))>>)}

ScVals == Scalars \cup Unrecognized \cup Flat \cup Nested

\* One conversion of a contract value to both of its forms.
ScValConvert ==
    /\ input # << >>
    /\ input[1] = "scVal"
    /\ result = << >>
    /\ result' = <<scValToString(input[2]), scValToJSON(input[2])>>
    /\ UNCHANGED <<config, ledgerBackend, db, dbTx, pc, currentLedger, stats,
                   ledgerRange, reqSeq, txIdx, opIdx, evIdx, transaction,
                   broadcast, clients, closed, hubRunning, ctxDone, now,
                   failBudget, restarts, committedRun, unitErr, input,
                   mu, goroutines, refresher, hubMu>>

(* ------------------------- the Stats helpers --------------------------- *)

\* The goroutines that call the increment helpers at the same time.
MaxCallers == 2

Callers == 1..MaxCallers

\* The goroutine of a GetStats request and one calling getCurrentLedger.
Reporter == MaxCallers + 1

Reader == MaxCallers + 2

\* The helpers each caller calls in turn and the counter each one adds to.
Calls ==
    <<"incrementTransactionCount", "incrementOperationCount",
      "incrementEventCount">>

Counter(call) ==
    CASE call = "incrementTransactionCount" -> "TransactionCount"
      [] call = "incrementOperationCount" -> "OperationCount"
      [] call = "incrementEventCount" -> "EventCount"

\* The fields of the Stats block in the order the struct copy goes over
\* them, in two parts.
Fields(part) ==
    IF part = 1 THEN {"TransactionCount", "EventCount", "OperationCount"}
    ELSE {"CurrentLedger", "LedgersProcessed", "LastUpdateTime"}

\* A goroutine: what it runs, where it stands, which of its calls (or parts)
\* it is at, and what it has read.
Goroutine(kind, at, call, local) ==
    [kind |-> kind, pc |-> at, call |-> call, local |-> local]

NewGoroutines ==
    [g \in 1..(MaxCallers + 2) |->
        IF g \in Callers THEN Goroutine("increment", "Lock", 1, 0)
        ELSE IF g = Reporter THEN Goroutine("GetStats", "copy", 1, << >>)
        ELSE Goroutine("getCurrentLedger", "RLock", 1, 0)]

\* Everything but the Stats block, the lock and the goroutines.
StatsFrame ==
    UNCHANGED <<config, ledgerBackend, db, dbTx, pc, currentLedger,
                ledgerRange, reqSeq, txIdx, opIdx, evIdx, transaction,
                broadcast, clients, closed, hubRunning, ctxDone, now,
                failBudget, restarts, committedRun, unitErr, input, result,
                refresher, hubMu>>

\* A Lock() that does not wait for the lock to be free.
LockNotExcluding(g) ==
    /\ goroutines[g].kind = "increment"
    /\ goroutines[g].pc = "Lock"
    /\ mu' = [mu EXCEPT !.writer = g]
    /\ goroutines' = [goroutines EXCEPT ![g].pc = "load"]
    /\ UNCHANGED stats
    /\ StatsFrame

\* i.mu.Lock() of an increment helper: waits until nobody holds the lock.
Lock(g) ==
    /\ goroutines[g].kind = "increment"
    /\ goroutines[g].pc = "Lock"
    /\ mu.writer = 0
    /\ mu.readers = {}
    /\ mu' = [mu EXCEPT !.writer = g]
    /\ goroutines' = [goroutines EXCEPT ![g].pc = "load"]
    /\ UNCHANGED stats
    /\ StatsFrame

\* The read of i.stats.X++ (or += count).
IncrementLoad(g) ==
    /\ goroutines[g].pc = "load"
    /\ goroutines' =
           [goroutines EXCEPT
               ![g].local = stats[Counter(Calls[goroutines[g].call])],
               ![g].pc = "store"]
    /\ UNCHANGED <<stats, mu>>
    /\ StatsFrame

\* The write of i.stats.X++ (or += count, count being 1).
IncrementStore(g) ==
    /\ goroutines[g].pc = "store"
    /\ stats' = [stats EXCEPT ![Counter(Calls[goroutines[g].call])] =
                                  goroutines[g].local + 1]
    /\ goroutines' = [goroutines EXCEPT ![g].pc = "Unlock"]
    /\ UNCHANGED mu
    /\ StatsFrame

\* The deferred i.mu.Unlock(); the caller goes on to its next helper.
Unlock(g) ==
    /\ goroutines[g].pc = "Unlock"
    /\ mu' = [mu EXCEPT !.writer = IF @ = g THEN 0 ELSE @]
    /\ goroutines' =
           [goroutines EXCEPT
               ![g].call = IF @ < Len(Calls) THEN @ + 1 ELSE @,
               ![g].pc = IF goroutines[g].call < Len(Calls) THEN "Lock"
                         ELSE "done"]
    /\ UNCHANGED stats
    /\ StatsFrame

\* stats := *ic.stats of GetStats: the copy reads the block's fields, with
\* no lock taken, the first part and then the second.
GetStatsCopy(g) ==
    /\ goroutines[g].kind = "GetStats"
    /\ goroutines[g].pc = "copy"
    /\ goroutines' =
           [goroutines EXCEPT
               ![g].local =
                   [f \in DOMAIN @ \cup Fields(goroutines[g].call) |->
                       IF f \in Fields(goroutines[g].call) THEN stats[f]
                       ELSE @[f]],
               ![g].call = IF @ = 1 THEN 2 ELSE @,
               ![g].pc = IF goroutines[g].call = 1 THEN "copy" ELSE "done"]
    /\ UNCHANGED <<stats, mu>>
    /\ StatsFrame

\* i.mu.RLock() of getCurrentLedger: waits while the lock is held
\* exclusively.
RLock(g) ==
    /\ goroutines[g].kind = "getCurrentLedger"
    /\ goroutines[g].pc = "RLock"
    /\ mu.writer = 0
    /\ mu' = [mu EXCEPT !.readers = @ \cup {g}]
    /\ goroutines' = [goroutines EXCEPT ![g].pc = "return"]
    /\ UNCHANGED stats
    /\ StatsFrame

\* return i.currentLedger, with the deferred i.mu.RUnlock().
GetCurrentLedger(g) ==
    /\ goroutines[g].pc = "return"
    /\ mu' = [mu EXCEPT !.readers = @ \ {g}]
    /\ goroutines' = [goroutines EXCEPT ![g].local = currentLedger,
                                        ![g].pc = "done"]
    /\ UNCHANGED stats
    /\ StatsFrame

(* --------------------------- the hub's lock ---------------------------- *)

\* The goroutine of WebSocketHub.run and a goroutine that looks a client up
\* in h.clients.
HubRun == 1

Lookup == 2

HubGoroutines ==
    [g \in {HubRun, Lookup} |->
        IF g = HubRun THEN Goroutine("run", "select", 0, {})
        ELSE Goroutine("lookup", "RLock", 0, {})]

\* Everything but the hub's channels, set and lock and the goroutines.
HubFrame ==
    UNCHANGED <<config, ledgerBackend, db, dbTx, pc, currentLedger, stats,
                ledgerRange, reqSeq, txIdx, opIdx, evIdx, transaction,
                hubRunning, ctxDone, now, failBudget, restarts, committedRun,
                unitErr, input, result, mu, refresher>>

\* hub.broadcast <- testMessage: a message is put on the broadcast channel
\* while it has room.
PublishTest ==
    /\ Len(broadcast) < BroadcastCap
    /\ broadcast' = Append(broadcast, Message("test", "test_data"))
    /\ UNCHANGED <<clients, closed, hubMu, goroutines>>
    /\ HubFrame

\* case client := <-h.register, for the client of a new connection.
SelectRegister ==
    /\ goroutines[HubRun].pc = "select"
    /\ \E c \in Clients \ (DOMAIN clients \cup DOMAIN closed) :
         goroutines' = [goroutines EXCEPT ![HubRun].pc = "register",
                                          ![HubRun].call = c]
    /\ UNCHANGED <<broadcast, clients, closed, hubMu>>
    /\ HubFrame

\* case client := <-h.unregister, for any client.
SelectUnregister ==
    /\ goroutines[HubRun].pc = "select"
    /\ \E c \in Clients :
         goroutines' = [goroutines EXCEPT ![HubRun].pc = "unregister",
                                          ![HubRun].call = c]
    /\ UNCHANGED <<broadcast, clients, closed, hubMu>>
    /\ HubFrame

\* case message := <-h.broadcast.
SelectBroadcast ==
    /\ goroutines[HubRun].pc = "select"
    /\ broadcast # << >>
    /\ broadcast' = Tail(broadcast)
    /\ goroutines' = [goroutines EXCEPT ![HubRun].pc = "broadcast",
                                        ![HubRun].call = Head(broadcast)]
    /\ UNCHANGED <<clients, closed, hubMu>>
    /\ HubFrame

\* h.mu.Lock() of the register and unregister cases.
HubLock ==
    /\ goroutines[HubRun].pc \in {"register", "unregister"}
    /\ hubMu.writer = 0
    /\ hubMu.readers = {}
    /\ hubMu' = [hubMu EXCEPT !.writer = HubRun]
    /\ goroutines' =
           [goroutines EXCEPT
               ![HubRun].pc = IF @ = "register" THEN "insert" ELSE "delete"]
    /\ UNCHANGED <<broadcast, clients, closed>>
    /\ HubFrame

\* h.clients[client] = true.
HubInsert ==
    /\ goroutines[HubRun].pc = "insert"
    /\ clients' = [d \in DOMAIN clients \cup {goroutines[HubRun].call} |->
                      IF d \in DOMAIN clients THEN clients[d] ELSE << >>]
    /\ goroutines' = [goroutines EXCEPT ![HubRun].pc = "Unlock"]
    /\ UNCHANGED <<broadcast, closed, hubMu>>
    /\ HubFrame

\* if _, ok := h.clients[client]; ok { delete(h.clients, client);
\* close(client.send) }.
HubDelete ==
    /\ goroutines[HubRun].pc = "delete"
    /\ LET c == goroutines[HubRun].call
       IN  IF c \in DOMAIN clients
           THEN /\ clients' = [d \in DOMAIN clients \ {c} |-> clients[d]]
                /\ closed' = Close(closed, {c}, "unregister")
           ELSE UNCHANGED <<clients, closed>>
    /\ goroutines' = [goroutines EXCEPT ![HubRun].pc = "Unlock"]
    /\ UNCHANGED <<broadcast, hubMu>>
    /\ HubFrame

\* h.mu.Unlock().
HubUnlock ==
    /\ goroutines[HubRun].pc = "Unlock"
    /\ hubMu' = [hubMu EXCEPT !.writer = 0]
    /\ goroutines' = [goroutines EXCEPT ![HubRun].pc = "select"]
    /\ UNCHANGED <<broadcast, clients, closed>>
    /\ HubFrame

\* h.mu.RLock() of the broadcast case; the range goes over the clients of
\* the set.
HubRLock ==
    /\ goroutines[HubRun].pc = "broadcast"
    /\ hubMu.writer = 0
    /\ hubMu' = [hubMu EXCEPT !.readers = @ \cup {HubRun}]
    /\ goroutines' = [goroutines EXCEPT ![HubRun].pc = "range",
                                        ![HubRun].local = DOMAIN clients]
    /\ UNCHANGED <<broadcast, clients, closed>>
    /\ HubFrame

\* One client of the range: select { case client.send <- message:
\* default: delete(h.clients, client); close(client.send) }.
HubSend ==
    /\ goroutines[HubRun].pc = "range"
    /\ \E c \in goroutines[HubRun].local :
         /\ IF Len(clients[c]) < SendCap
            THEN /\ clients' = [clients EXCEPT
                                   ![c] = Append(@, goroutines[HubRun].call)]
                 /\ UNCHANGED closed
            ELSE /\ clients' = [d \in DOMAIN clients \ {c} |-> clients[d]]
                 /\ closed' = Close(closed, {c}, "broadcast")
         /\ goroutines' = [goroutines EXCEPT ![HubRun].local = @ \ {c}]
    /\ UNCHANGED <<broadcast, hubMu>>
    /\ HubFrame

\* h.mu.RUnlock() after the range.
HubRUnlock ==
    /\ goroutines[HubRun].pc = "range"
    /\ goroutines[HubRun].local = {}
    /\ hubMu' = [hubMu EXCEPT !.readers = @ \ {HubRun}]
    /\ goroutines' = [goroutines EXCEPT ![HubRun].pc = "select",
                                        ![HubRun].call = 0]
    /\ UNCHANGED <<broadcast, clients, closed>>
    /\ HubFrame

\* hub.mu.RLock() of a lookup.
LookupRLock ==
    /\ goroutines[Lookup].pc = "RLock"
    /\ hubMu.writer = 0
    /\ hubMu' = [hubMu EXCEPT !.readers = @ \cup {Lookup}]
    /\ goroutines' = [goroutines EXCEPT ![Lookup].pc = "read"]
    /\ UNCHANGED <<broadcast, clients, closed>>
    /\ HubFrame

\* _, exists := hub.clients[client].
LookupRead ==
    /\ goroutines[Lookup].pc = "read"
    /\ goroutines' = [goroutines EXCEPT ![Lookup].pc = "RUnlock",
                                        ![Lookup].local = DOMAIN clients]
    /\ UNCHANGED <<broadcast, clients, closed, hubMu>>
    /\ HubFrame

\* hub.mu.RUnlock() of a lookup; another lookup follows.
LookupRUnlock ==
    /\ goroutines[Lookup].pc = "RUnlock"
    /\ hubMu' = [hubMu EXCEPT !.readers = @ \ {Lookup}]
    /\ goroutines' = [goroutines EXCEPT ![Lookup].pc = "RLock"]
    /\ UNCHANGED <<broadcast, clients, closed>>
    /\ HubFrame

(* ---------------------------- specification ---------------------------- *)

\* One step of the goroutine processLedgers.
LoopStep ==
    \/ CtxDone
    \/ GetLedgerEOF
    \/ GetLedgerError
    \/ GetLedgerOK
    \/ Wake
    \/ Begin
    \/ StoreLedger
    \/ ProcessTransaction
    \/ ProcessOperation
    \/ StoreSorobanEvent
    \/ SendEvent
    \/ FinishTransaction
    \/ SendTransaction
    \/ UpdateIngestionState
    \/ Commit
    \/ SendLedger
    \/ AdvanceCursor

Next ==
    \/ Start
    \/ LoopStep
    \/ HubBroadcast
    \/ UpdateStats
    \/ UpdateStatsReturn
    \/ Cancel
    \/ Restart

Spec == Init /\ [][Next]_vars

\* The goroutines processLedgers, wsHub.run and updateStats keep being
\* scheduled.
FairSpec ==
    Spec /\ WF_vars(LoopStep) /\ WF_vars(HubBroadcast)
         /\ WF_vars(UpdateStatsReturn)

\* The ingester configured with a bounded range: Config.EndLedger is set, to
\* the ledger the range starts at.
RangeInit ==
    /\ config \in [StartLedger : {StartLedger}, EndLedger : {StartLedger},
                   EnableWebSocket : BOOLEAN,
                   FilterContracts : {FilterContracts}]
    /\ ledgerBackend \in BOOLEAN
    /\ db = EmptyTables
    /\ now = 1
    /\ failBudget = MaxFailures
    /\ restarts = 0
    /\ NewProcess
    /\ input = << >>
    /\ result = << >>

RangeSpec == RangeInit /\ [][Next]_vars

\* The ingester with its hub configured and a backend set, serving
\* subscribers: the connections register, read and unregister while the
\* loop runs.
HubInit ==
    /\ Init
    /\ config.EnableWebSocket
    /\ ledgerBackend

HubNext ==
    \/ Start
    \/ LoopStep
    \/ HubBroadcast
    \/ RegisterClient
    \/ UnregisterClient
    \/ ClientReceive
    \/ Cancel

HubSpec == HubInit /\ [][HubNext]_vars

\* An ingester built with any filter configuration, as the tests build it,
\* and one call of isFilteredContract on any address.
FilterInit ==
    /\ config \in [StartLedger : {StartLedger}, EndLedger : {0},
                   EnableWebSocket : {FALSE},
                   FilterContracts : SUBSET Addresses]
    /\ ledgerBackend = FALSE
    /\ db = EmptyTables
    /\ now = 1
    /\ failBudget = MaxFailures
    /\ restarts = 0
    /\ NewProcess
    /\ input \in {<<"isFilteredContract", a>> : a \in Addresses}
    /\ result = << >>

FilterNext == IsFilteredContract

FilterSpec == FilterInit /\ [][FilterNext]_vars

\* The value decoder on its own: one contract value, converted once.
DecodeInit ==
    /\ config \in [StartLedger : {StartLedger}, EndLedger : {0},
                   EnableWebSocket : {FALSE},
                   FilterContracts : {FilterContracts}]
    /\ ledgerBackend = FALSE
    /\ db = EmptyTables
    /\ now = 1
    /\ failBudget = MaxFailures
    /\ restarts = 0
    /\ NewProcess
    /\ input \in {<<"scVal", val>> : val \in ScVals}
    /\ result = << >>

DecodeNext == ScValConvert

DecodeSpec == DecodeInit /\ [][DecodeNext]_vars

\* The Stats helpers called by concurrent goroutines, with a GetStats
\* request and a getCurrentLedger call beside them.
StatsInit ==
    /\ config \in [StartLedger : {StartLedger}, EndLedger : {0},
                   EnableWebSocket : {FALSE},
                   FilterContracts : {FilterContracts}]
    /\ ledgerBackend = FALSE
    /\ db = EmptyTables
    /\ now = 1
    /\ failBudget = MaxFailures
    /\ restarts = 0
    /\ pc = "idle"
    /\ currentLedger = 0
    /\ stats = NewStats
    /\ dbTx = NoTx
    /\ ledgerRange = UnboundedRange(0)
    /\ reqSeq = 0
    /\ txIdx = 0
    /\ opIdx = 0
    /\ evIdx = 0
    /\ transaction = NoTransaction
    /\ broadcast = << >>
    /\ clients = << >>
    /\ closed = << >>
    /\ hubRunning = FALSE
    /\ ctxDone = FALSE
    /\ committedRun = {}
    /\ unitErr = FALSE
    /\ input = << >>
    /\ result = << >>
    /\ mu = Unlocked
    /\ goroutines = NewGoroutines
    /\ refresher = "off"
    /\ hubMu = Unlocked

StatsNext ==
    \E g \in DOMAIN goroutines :
        \/ Lock(g)
        \/ IncrementLoad(g)
        \/ IncrementStore(g)
        \/ Unlock(g)
        \/ GetStatsCopy(g)
        \/ RLock(g)
        \/ GetCurrentLedger(g)

StatsSpec == StatsInit /\ [][StatsNext]_vars

\* The hub on its own, case by case and lock by lock, with a publisher, the
\* clients' receives and a lookup in the set beside it.
HubLockInit ==
    /\ config \in [StartLedger : {StartLedger}, EndLedger : {0},
                   EnableWebSocket : {TRUE},
                   FilterContracts : {FilterContracts}]
    /\ ledgerBackend = FALSE
    /\ db = EmptyTables
    /\ now = 1
    /\ failBudget = MaxFailures
    /\ restarts = 0
    /\ pc = "idle"
    /\ currentLedger = 0
    /\ stats = NewStats
    /\ dbTx = NoTx
    /\ ledgerRange = UnboundedRange(0)
    /\ reqSeq = 0
    /\ txIdx = 0
    /\ opIdx = 0
    /\ evIdx = 0
    /\ transaction = NoTransaction
    /\ broadcast = << >>
    /\ clients = << >>
    /\ closed = << >>
    /\ hubRunning = TRUE
    /\ ctxDone = FALSE
    /\ committedRun = {}
    /\ unitErr = FALSE
    /\ input = << >>
    /\ result = << >>
    /\ mu = Unlocked
    /\ goroutines = HubGoroutines
    /\ refresher = "off"
    /\ hubMu = Unlocked

HubLockNext ==
    \/ PublishTest
    \/ SelectRegister
    \/ SelectUnregister
    \/ SelectBroadcast
    \/ HubLock
    \/ HubInsert
    \/ HubDelete
    \/ HubUnlock
    \/ HubRLock
    \/ HubSend
    \/ HubRUnlock
    \/ ClientReceive
    \/ LookupRLock
    \/ LookupRead
    \/ LookupRUnlock

HubLockSpec == HubLockInit /\ [][HubLockNext]_vars

(* -------------------------------- claims ------------------------------- *)

\* The persisted checkpoint: ingestion_state.last_ledger, 0 when absent.
Checkpoint == loadLastLedger(db)

\* The sequences of the ledger rows of tables t.
LedgerSeqs(t) == {r.sequence : r \in t.ledgers}

\* S is a set of consecutive numbers.
GapFree(S) == \A a \in S, b \in S : \A c \in a..b : c \in S

\* The loop is at a call of GetLedger that returns in this step.
Fetching == pc = "loop" /\ pc' \in {"sleepEOF", "sleepErr", "processLedger"}

\* C1: the loop only ever requests the ledger after the cursor, the cursor
\* moves by exactly one ledger at a time (a fresh process starts at 0), and
\* the ledgers committed by one process form a gap-free interval.
C1_NeverSkipsLedger ==
    /\ [](GapFree(committedRun))
    /\ [][Fetching => reqSeq' = currentLedger + 1]_vars
    /\ [][currentLedger' # currentLedger =>
            (currentLedger' = currentLedger + 1 \/ pc = "stopped")]_vars

\* C1 witness: two ledgers committed in one process although the source and
\* the database failed as often as they could.
C1_Witness ==
    /\ committedRun = {1, 2}
    /\ currentLedger = 2
    /\ failBudget = 0

\* C2: the first sequence the loop requests after Start is the start of the
\* range given to PrepareRange, which is checkpoint + 1 when a checkpoint
\* exists and the configured start ledger otherwise.
C2_ResumePosition ==
    (pc \notin {"idle", "skipped", "failed"} /\ reqSeq # 0
        /\ committedRun = {})
    => /\ reqSeq = ledgerRange.from
       /\ ledgerRange.from = IF Checkpoint > 0 THEN Checkpoint + 1
                             ELSE config.StartLedger

\* C3: a unit in which a database call failed is aborted as a whole: its
\* ledger is not committed and the cursor does not advance to it.
C3_AllOrNothing ==
    unitErr => (reqSeq \notin committedRun /\ currentLedger # reqSeq)

\* C4: the checkpoint is written in the unit of its ledger: a checkpoint N > 0
\* has ledger N's row visible, and every change of the committed tables sets
\* the checkpoint to the ledger of the unit, whose row is then visible.
C4_CheckpointInUnit ==
    /\ [](Checkpoint > 0 => Checkpoint \in LedgerSeqs(db))
    /\ [][db' # db =>
            (loadLastLedger(db') = ledgerSeq
                /\ ledgerSeq \in LedgerSeqs(db'))]_vars

\* C4 witness: ledger 2 is committed with its transactions and the
\* checkpoint shows 2.
C4_Witness ==
    /\ Checkpoint = 2
    /\ 2 \in LedgerSeqs(db)
    /\ \E r \in db.transactions : r.ledger = 2

\* C5: the persisted checkpoint never decreases, restarts included.
C5_CheckpointMonotonic ==
    [][loadLastLedger(db') >= loadLastLedger(db)]_vars

\* Every record processLedger writes for ledger seq is in tables t.
AllStored(seq, t) ==
    /\ seq \in LedgerSeqs(t)
    /\ \A i \in 1..Len(LedgerTransactions(seq)) :
         LET tx == LedgerTransactions(seq)[i]
         IN  /\ \E r \in t.transactions : r.id = <<seq, i>>
             /\ \A k \in 1..Len(tx.ops) :
                  \E r \in t.operations : r.id = <<seq, i, k - 1>>
             /\ (tx.metaV = 3 /\ tx.successful) =>
                  \A k \in 1..Len(tx.events) :
                    \E r \in t.contract_events :
                      r.id = <<tx.hash, tx.events[k].ntopics,
                               tx.events[k].contract>>

\* The rows of the four record tables.
Records(t) ==
    <<t.ledgers, t.transactions, t.operations, t.contract_events>>

\* No two rows of a table share their key.
UniqueKeys(t) ==
    /\ \A r1 \in t.ledgers, r2 \in t.ledgers :
         r1.sequence = r2.sequence => r1 = r2
    /\ \A r1 \in t.transactions, r2 \in t.transactions :
         r1.id = r2.id => r1 = r2
    /\ \A r1 \in t.operations, r2 \in t.operations :
         r1.id = r2.id => r1 = r2
    /\ \A r1 \in t.contract_events, r2 \in t.contract_events :
         r1.id = r2.id => r1 = r2

\* C6: persistence is idempotent: a stored row is never changed or removed,
\* no key is stored twice, and a unit that commits a ledger whose records are
\* all stored already leaves the four record tables as they were.
C6_IdempotentPersistence ==
    [][/\ db.ledgers \subseteq db'.ledgers
       /\ db.transactions \subseteq db'.transactions
       /\ db.operations \subseteq db'.operations
       /\ db.contract_events \subseteq db'.contract_events
       /\ UniqueKeys(db')
       /\ (pc = "commit" /\ pc' \in {"sendLedger", "advance"}
              /\ AllStored(ledgerSeq, db))
          => Records(db') = Records(db)]_vars

\* C6 witness: after a restart, with no failure ever injected, the unit of a
\* ledger stored by the earlier process has committed again, at a later time,
\* and the stored transaction rows still carry their first timestamp.
C6_Witness ==
    /\ restarts >= 1
    /\ failBudget = MaxFailures
    /\ pc \in {"sendLedger", "advance"}
    /\ ledgerSeq \in committedRun
    /\ AllStored(ledgerSeq, db)
    /\ \E r \in db.transactions : r.ledger = ledgerSeq
    /\ \A r \in db.transactions : r.ledger = ledgerSeq => r.created_at < now

\* C7: a failed fetch (end-of-stream or another error) and the sleep after it
\* leave the cursor, the committed tables, the Stats and the hub's queue
\* unchanged, and the request after it is for the same sequence.
C7_FailedFetchChangesNothing ==
    [][((pc = "loop" /\ pc' \in {"sleepEOF", "sleepErr"})
          \/ (pc \in {"sleepEOF", "sleepErr"} /\ pc' = "loop"))
       => /\ UNCHANGED <<currentLedger, db, stats, broadcast>>
          /\ NextRequest(currentLedger') = reqSeq']_vars

\* C7 witness: ledger 1 is committed and the request for ledger 2 has just
\* met end-of-stream.
C7_Witness ==
    /\ pc = "sleepEOF"
    /\ currentLedger = 1
    /\ reqSeq = 2
    /\ Checkpoint = 1

\* C8: under fair scheduling of the loop and the hub, a ledger whose fetch
\* failed is, unless the context is cancelled, eventually committed by this
\* process with the checkpoint at it.
C8_RetriedUntilSuccess ==
    \A n \in 1..MaxLedger :
        (pc \in {"sleepEOF", "sleepErr"} /\ reqSeq = n)
            ~> (ctxDone \/ (n \in committedRun /\ Checkpoint = n))

\* C8 witness: every failure the environment had was spent, the context is
\* not cancelled, and ledger 2 is committed with the checkpoint at 2.
C8_Witness ==
    /\ failBudget = 0
    /\ ~ctxDone
    /\ 2 \in committedRun
    /\ Checkpoint = 2

\* C9: when processLedger returns an error the cursor and LedgersProcessed
\* stay as they were and the next request is for the same ledger.
C9_PersistenceFailureRetries ==
    [][(pc \in {"processLedger", "storeLedger", "updateIngestionState",
                "commit"} /\ pc' = "loop")
       => /\ currentLedger' = currentLedger
          /\ stats'.LedgersProcessed = stats.LedgersProcessed
          /\ NextRequest(currentLedger') = ledgerSeq]_vars

\* C9 witness: ledger 1 is done, processLedger has returned an error for
\* ledger 2 and the loop is back at its top with the cursor still at 1.
C9_Witness ==
    /\ pc = "loop"
    /\ unitErr
    /\ currentLedger = 1
    /\ reqSeq = 2
    /\ 2 \notin committedRun
    /\ stats.LedgersProcessed = 1

\* The ledger a transaction hash belongs to (TxHash read backwards).
LedgerOfHash(h) == h \div 10

\* The ledger the record of a broadcast message belongs to.
MessageLedger(m) ==
    CASE m.type = "ledger" -> m.data.sequence
      [] m.type = "transaction" -> m.data.ledger
      [] OTHER -> LedgerOfHash(m.data.transaction_hash)

\* C10: a message is on the hub's queue only when the unit of its ledger has
\* committed.
C10_PublishAfterCommit ==
    \A k \in 1..Len(broadcast) : MessageLedger(broadcast[k]) \in committedRun

\* The rows the units committed by this process stored: transactions,
\* operations and contract events of the ledgers in committedRun.
StoredTransactions ==
    {r \in db.transactions : r.ledger \in committedRun}

StoredOperations ==
    {r \in db.operations : r.transaction_id[1] \in committedRun}

StoredEvents ==
    {r \in db.contract_events :
        LedgerOfHash(r.transaction_hash) \in committedRun}

\* C11: between two units of work the Stats counters equal the numbers of
\* transactions, operations and events the committed units of this process
\* stored; a unit that failed and was retried counts once.
C11_StatsOnlyOnSuccess ==
    pc = "loop" =>
        /\ stats.TransactionCount = Cardinality(StoredTransactions)
        /\ stats.OperationCount = Cardinality(StoredOperations)
        /\ stats.EventCount = Cardinality(StoredEvents)

\* A step of the hub's fan-out: the oldest message leaves h.broadcast.
FanOutStep == broadcast # << >> /\ broadcast' = Tail(broadcast)

\* C12: in a fan-out step every registered subscriber whose queue is full
\* leaves the subscriber set with its channel closed, every registered
\* subscriber with room gets the message at the end of its queue, and the
\* step can be taken whatever the subscribers' queues hold.
C12_HubBackpressure ==
    /\ [][FanOutStep =>
            \A c \in DOMAIN clients :
                IF Len(clients[c]) >= SendCap
                THEN c \notin DOMAIN clients' /\ c \in DOMAIN closed'
                ELSE /\ c \in DOMAIN clients'
                     /\ c \notin DOMAIN closed'
                     /\ clients'[c] = Append(clients[c], Head(broadcast))]_vars
    /\ [](hubRunning /\ broadcast # << >> => ENABLED HubBroadcast)

\* A subscriber was dropped by a fan-out whose message another subscriber
\* received.
C12_Witness ==
    \E c \in DOMAIN closed, d \in DOMAIN clients :
        /\ closed[c] = "broadcast"
        /\ clients[d] # << >>
        /\ Len(broadcast) < BroadcastCap

\* C13: a subscriber's queue starts empty at its registration; afterwards it
\* changes only by a fan-out step, which puts the fanned message at its end,
\* or by the subscriber taking its oldest message; and no fan-out step passes
\* a subscriber that stays registered.
C13_PerSubscriberFIFO ==
    [][/\ \A c \in DOMAIN clients' \ DOMAIN clients : clients'[c] = << >>
       /\ \A c \in DOMAIN clients \cap DOMAIN clients' :
            IF FanOutStep
            THEN clients'[c] = Append(clients[c], Head(broadcast))
            ELSE \/ clients'[c] = clients[c]
                 \/ clients[c] # << >> /\ clients'[c] = Tail(clients[c])]_vars

\* A subscriber holds the transaction message and the ledger message of a
\* ledger, in the order they were published.
C13_Witness ==
    \E c \in DOMAIN clients :
        /\ Len(clients[c]) = 2
        /\ clients[c][1].type = "transaction"
        /\ clients[c][2].type = "ledger"
        /\ clients[c][2].data.sequence = clients[c][1].data.ledger

\* C14: a publish of the loop never has to wait: whenever processLedger,
\* processTransaction or storeSorobanEvent stands at its send, the broadcast
\* queue has room.
C14_PublishNeverSuspends ==
    pc \in {"sendEvent", "sendTransaction", "sendLedger"}
        => Len(broadcast) < BroadcastCap

\* The record a message carries: its type and the record's id.
RecordOf(m) ==
    <<m.type, IF m.type = "ledger" THEN m.data.sequence ELSE m.data.id>>

\* C15: no subscriber's queue holds the message of one record twice.
C15_AtMostOnceDelivery ==
    \A c \in DOMAIN clients :
        \A i \in 1..Len(clients[c]), j \in 1..Len(clients[c]) :
            i # j => RecordOf(clients[c][i]) # RecordOf(clients[c][j])

\* C16: for a non-empty address isFilteredContract returns true exactly when
\* no filter is configured or the address is a member of the filter set.
C16_FilterMembership ==
    (result # << >> /\ input[2] # "") =>
        result[1] = (\/ config.FilterContracts = {}
                     \/ input[2] \in config.FilterContracts)

\* Calls have returned for a member and for a non-member of a filter set.
C16_Witness ==
    /\ config.FilterContracts = {"c1", "c2"}
    /\ \/ input[2] = "c1" /\ result = <<TRUE>>
       \/ input[2] = "c3" /\ result = <<FALSE>>

\* C17: isFilteredContract("") is false under every filter configuration,
\* the empty one and one listing "" included.
C17_EmptyAddressRejected ==
    (result # << >> /\ input[2] = "") => result[1] = FALSE

\* The empty address was rejected with no filter configured.
C17_Witness ==
    /\ config.FilterContracts = {}
    /\ input = <<"isFilteredContract", "">>
    /\ result = <<FALSE>>

\* The operation of the source a stored operation row was built from.
InputOp(r) ==
    LedgerTransactions(r.transaction_id[1])[r.transaction_id[2]].ops[r.index + 1]

\* The contracts the operations of the transaction of row r invoke.
InvokedContracts(r) ==
    LET ops == LedgerTransactions(r.ledger)[r.index].ops
    IN  {extractContractAddress(ops[i].address) :
            i \in {k \in 1..Len(ops) : ops[k].type = "invoke_host_function"}}

\* C18: with a filter configured, every stored contract invocation and
\* every stored or published contract event belongs to a contract of the
\* filter set.
C18_FilteredRecordsOnly ==
    config.FilterContracts # {} =>
        /\ \A r \in db.operations :
              r.type = "invoke_host_function" =>
                 extractContractAddress(InputOp(r).address)
                     \in config.FilterContracts
        /\ \A r \in db.contract_events :
              r.contract_id \in config.FilterContracts
        /\ \A k \in 1..Len(broadcast) :
              broadcast[k].type = "contract_event" =>
                 broadcast[k].data.contract_id \in config.FilterContracts

\* C19: with a filter configured, every stored transaction has an operation
\* invoking a contract of the filter set.
C19_FilteredTransactionsOnly ==
    config.FilterContracts # {} =>
        \A r \in db.transactions :
            InvokedContracts(r) \cap config.FilterContracts # {}

\* C20: two distinct events of one successful transaction of a committed
\* ledger get distinct ids, the key their rows are stored under.
C20_EventIdsDoNotCollide ==
    \A seq \in committedRun \cap LedgerSeqs(db) :
        \A idx \in 1..Len(LedgerTransactions(seq)) :
            LET tx == LedgerTransactions(seq)[idx]
                rec(i) == ContractEventRecord(tx.events[i], 0, tx.hash, TRUE)
            IN  \A i \in 1..Len(tx.events), j \in 1..Len(tx.events) :
                    (tx.successful /\ i # j /\ tx.events[i] # tx.events[j])
                        => rec(i).id # rec(j).id

\* The transaction of the source with hash h (TxHash read backwards).
TxOfHash(h) == LedgerTransactions(h \div 10)[h % 10]

\* The event record r belongs to a successful transaction with V3 meta and
\* says so.
FromSuccessfulV3(r) ==
    /\ r.in_successful_tx
    /\ TxOfHash(r.transaction_hash).successful
    /\ TxOfHash(r.transaction_hash).metaV = 3

\* C21: every contract event stored (in the open unit or committed),
\* published or counted belongs to a successful transaction with V3 meta and
\* has in_successful_tx = true.
C21_EventsOnlyFromSuccessfulV3 ==
    /\ [](\A r \in db.contract_events \cup dbTx.tables.contract_events :
             FromSuccessfulV3(r))
    /\ [](\A k \in 1..Len(broadcast) :
             broadcast[k].type = "contract_event"
                 => FromSuccessfulV3(broadcast[k].data))
    /\ [][stats'.EventCount > stats.EventCount =>
             /\ Txs[txIdx].successful
             /\ Txs[txIdx].metaV = 3]_vars

\* Ledger 2 is committed: its failed V3 transaction is stored without its
\* event, the events of its successful one are stored and counted.
C21_Witness ==
    /\ 2 \in committedRun
    /\ \E r \in db.transactions : r.id = <<2, 2>> /\ ~r.successful
    /\ \E r \in db.contract_events : r.transaction_hash = TxHash(2, 1)
    /\ stats.EventCount >= 2

StopsAfterCancel == ctxDone ~> pc = "stopped"

\* After the cancellation no ledger is requested any more: only the unit in
\* flight can still commit.
NoFetchAfterCancel == [][ctxDone => ~Fetching]_vars

\* When the loop has returned, every ledger in the database has all its
\* transactions, operations and events.
NoPartialLedger ==
    [](pc = "stopped" => \A seq \in LedgerSeqs(db) : AllStored(seq, db))

\* C23: after the cancellation the loop eventually returns, it requests no
\* further ledger (so it commits at most the one in flight), and it leaves
\* no partially stored ledger behind.
C23_CooperativeCancellation ==
    /\ StopsAfterCancel
    /\ NoFetchAfterCancel
    /\ NoPartialLedger

\* C24: with an end ledger configured, no ledger past it is requested or
\* committed: after the end ledger the loop does not ask for the next one.
C24_StopsAtEndLedger ==
    config.EndLedger > 0 =>
        /\ reqSeq <= config.EndLedger
        /\ \A seq \in committedRun : seq <= config.EndLedger

\* The characters a decoded string is made of.
IsString(s) ==
    /\ DOMAIN s = 1..Len(s)
    /\ \A k \in 1..Len(s) :
           s[k] \in {HexDigits[d] : d \in 1..16}
                        \cup {"-", "t", "r", "u", "l", "s"}

\* A tree of booleans, numbers, strings, arrays and string-keyed objects.
RECURSIVE IsJSON(_)
IsJSON(j) ==
    CASE j.kind = "bool" -> j.v \in BOOLEAN
      [] j.kind \in {"Int32", "Int64", "Uint32", "Uint64"} -> j.v \in Int
      [] j.kind = "string" -> IsString(j.v)
      [] j.kind = "array" ->
            /\ DOMAIN j.v = 1..Len(j.v)
            /\ \A k \in 1..Len(j.v) : IsJSON(j.v[k])
      [] j.kind = "object" ->
            \A key \in DOMAIN j.v : IsString(key) /\ IsJSON(j.v[key])
      [] OTHER -> FALSE

\* The bytes a string of lower-case hex digits stands for.
HexValue(c) == (CHOOSE d \in 1..16 : HexDigits[d] = c) - 1

IsLowerHex(s) ==
    /\ Len(s) % 2 = 0
    /\ \A k \in 1..Len(s) : \E d \in 1..16 : HexDigits[d] = s[k]

HexDecode(s) ==
    [k \in 1..(Len(s) \div 2) |->
        (HexValue(s[(2 * k) - 1]) * 16) + HexValue(s[2 * k])]

\* C25: every contract value gets a string form and a structured form, and
\* for a variant outside the closed set both forms are the same string: the
\* lower-case hex of the value's binary encoding.
C25_DecoderTotalWithHexFallback ==
    /\ input # << >> /\ input[1] = "scVal" /\ result = << >> =>
           /\ IsString(scValToString(input[2]))
           /\ IsJSON(scValToJSON(input[2]))
    /\ input # << >> /\ input[1] = "scVal" /\ result # << >> =>
           /\ IsString(result[1])
           /\ IsJSON(result[2])
           /\ input[2].type \notin JSONCases =>
                  /\ result[2].kind = "string"
                  /\ result[2].v = result[1]
                  /\ IsLowerHex(result[1])
                  /\ HexDecode(result[1]) = MarshalBinary(input[2])

C25_Witness ==
    /\ input # << >> /\ input[1] = "scVal" /\ result # << >>
    /\ input[2] = ScVal("ScvDuration", 258)
    /\ result[1] = <<"0", "0", "0", "0", "0", "0", "0", "8",
                     "0", "0", "0", "0", "0", "0", "0", "0",
                     "0", "0", "0", "0", "0", "1", "0", "2">>
    /\ result[2] = JSON("string", result[1])

\* A step in which the hub handles the unregistration of subscriber c.
UnsubscribeStep(c) ==
    /\ c \notin DOMAIN closed
    /\ c \in DOMAIN closed'
    /\ closed'[c] = "unregister"

\* C26: a subscriber that the hub registered stays in the subscriber set
\* until the hub unregisters it or a fan-out finds its queue full, and while
\* it is in the set every fan-out that finds room in its queue delivers the
\* message to it; the step that unregisters a subscriber takes it out of the
\* set and closes its channel; and a subscriber whose channel is closed is
\* never in the set again, so that no later fan-out delivers to it.
C26_SubscribeUnsubscribe ==
    /\ [][\A c \in DOMAIN clients :
            /\ c \notin DOMAIN clients' =>
                   /\ c \in DOMAIN closed'
                   /\ \/ UnsubscribeStep(c)
                      \/ FanOutStep /\ Len(clients[c]) >= SendCap
            /\ FanOutStep /\ Len(clients[c]) < SendCap =>
                   /\ c \in DOMAIN clients'
                   /\ clients'[c] = Append(clients[c], Head(broadcast))]_vars
    /\ [][\A c \in Clients :
            UnsubscribeStep(c) =>
                c \in DOMAIN clients /\ c \notin DOMAIN clients']_vars
    /\ [][\A c \in DOMAIN closed :
            /\ c \in DOMAIN closed'
            /\ closed'[c] = closed[c]
            /\ c \notin DOMAIN clients']_vars
    /\ [](DOMAIN clients \cap DOMAIN closed = {})

\* One subscriber was unregistered while another, still registered, holds a
\* full queue of fanned-out messages.
C26_Witness ==
    \E c \in DOMAIN closed, d \in DOMAIN clients :
        /\ closed[c] = "unregister"
        /\ Len(clients[d]) = SendCap
        /\ broadcast # << >>

\* The calls of a helper that have written their counter.
Written(call) ==
    {g \in Callers :
        \/ goroutines[g].call > call
        \/ goroutines[g].call = call /\ goroutines[g].pc \in {"Unlock", "done"}}

\* C27: whatever the interleaving of the callers, each counter is the number
\* of calls of its helper that have written it, so that when the k callers
\* have made their calls every counter stands k above where it started.
C27_NoLostStatsUpdates ==
    DOMAIN goroutines # {} =>
        /\ \A call \in 1..Len(Calls) :
               stats[Counter(Calls[call])] = Cardinality(Written(call))
        /\ (\A g \in Callers : goroutines[g].pc = "done") =>
               /\ stats.TransactionCount = MaxCallers
               /\ stats.OperationCount = MaxCallers
               /\ stats.EventCount = MaxCallers

\* All callers have made their calls and the counters stand MaxCallers above
\* where they started.
C27_Witness ==
    /\ DOMAIN goroutines # {}
    /\ \A g \in Callers : goroutines[g].pc = "done"
    /\ stats.EventCount = MaxCallers
    /\ stats.TransactionCount = MaxCallers

\* A reporting goroutine that has begun a read of the Stats block or of the
\* cursor and has not finished it.
Reading(g) ==
    \/ goroutines[g].kind = "GetStats" /\ goroutines[g].pc = "copy"
           /\ goroutines[g].call = 2
    \/ goroutines[g].kind = "getCurrentLedger" /\ goroutines[g].pc = "return"

\* C28: a reporting goroutine that is reading the Stats block or the cursor
\* holds the lock shared, and nobody holds the lock exclusively meanwhile.
C28_ReportingReadsUnderSharedLock ==
    \A g \in DOMAIN goroutines :
        Reading(g) => g \in mu.readers /\ mu.writer = 0

\* The loop is outside processLedger.
BetweenLedgers ==
    pc \in {"idle", "skipped", "failed", "loop", "sleepEOF", "sleepErr",
            "stopped"}

EnclosingTransaction(r) ==
    LedgerTransactions(r.transaction_id[1])[r.transaction_id[2]]

\* C30: the source account of a stored operation is the operation's own
\* when the operation carries one, and the source account of its enclosing
\* transaction when it carries none.
C30_OperationSourceInherited ==
    \A r \in db.operations :
        r.source_account =
            IF InputOp(r).source = "" THEN EnclosingTransaction(r).source
            ELSE InputOp(r).source

\* The input is a contract-value map whose keys are pairwise distinct values,
\* and it has been converted.
DistinctKeyMapConverted ==
    /\ input # << >> /\ input[1] = "scVal" /\ result # << >>
    /\ input[2].type = "ScvMap"
    /\ \A j, k \in 1..Len(input[2].value) :
           j # k => input[2].value[j].Key # input[2].value[k].Key

\* C31: the JSON form of a map with n entries of pairwise distinct keys has
\* exactly n keys, and every entry is found under the string form of its key,
\* bound to the decoded value of that entry.
C31_MapKeepsEveryEntry ==
    DistinctKeyMapConverted =>
        /\ result[2].kind = "object"
        /\ Cardinality(DOMAIN result[2].v) = Len(input[2].value)
        /\ \A k \in 1..Len(input[2].value) :
               /\ scValToString(input[2].value[k].Key) \in DOMAIN result[2].v
               /\ result[2].v[scValToString(input[2].value[k].Key)]
                      = scValToJSON(input[2].value[k].Val)

\* The counters of the Stats block.
Counters ==
    {"TransactionCount", "OperationCount", "EventCount", "LedgersProcessed"}

\* C32: a process that has been constructed and not started has every
\* counter and current_ledger at 0, and no step of a process lowers a
\* counter (a step that replaces the process by a new one is not a step of
\* the process).
C32_StatsMonotone ==
    /\ [](pc = "idle" =>
            /\ \A f \in Counters : stats[f] = 0
            /\ stats.CurrentLedger = 0)
    /\ [][restarts' = restarts =>
            \A f \in Counters : stats'[f] >= stats[f]]_vars

\* Every counter has grown, and a unit failed after its transaction was
\* counted.
C32_Witness ==
    /\ \A f \in Counters : stats[f] > 0
    /\ stats.TransactionCount > Cardinality(db.transactions)
    /\ unitErr

\* C33: the committed tables and the tables of an open unit hold at most one
\* checkpoint record, with id 1; the step that saves the checkpoint leaves
\* exactly the record of id 1 with the ledger being processed; once a unit
\* has committed exactly one record exists; and reading the checkpoint of
\* tables without the record gives 0.
C33_SingleCheckpointRecord ==
    /\ [](\A t \in {db, dbTx.tables} :
            /\ Cardinality(t.ingestion_state) <= 1
            /\ \A r \in t.ingestion_state : r.id = 1)
    /\ [][pc = "updateIngestionState" /\ pc' = "commit" =>
            /\ Cardinality(dbTx'.tables.ingestion_state) = 1
            /\ \A r \in dbTx'.tables.ingestion_state :
                   r.id = 1 /\ r.last_ledger = ledgerSeq]_vars
    /\ [](committedRun # {} => Cardinality(db.ingestion_state) = 1)
    /\ [](db.ingestion_state = {} => loadLastLedger(db) = 0)

\* The checkpoint was saved for ledger 1 and again for ledger 2, and the one
\* record holds 2.
C33_Witness ==
    /\ {1, 2} \subseteq committedRun
    /\ Cardinality(db.ingestion_state) = 1
    /\ loadLastLedger(db) = 2

\* A step of the refresher: a tick that writes last_update_time, or its
\* return.
RefresherStep ==
    /\ refresher = "running"
    /\ restarts' = restarts
    /\ \/ refresher' = "returned"
       \/ stats'.LastUpdateTime # stats.LastUpdateTime

\* C34: a step of the refresher changes nothing but last_update_time (and
\* its own position); last_update_time is changed by no other step of a
\* process; a tick can be taken whenever the refresher runs, also inside an
\* open unit; and once the context is cancelled the refresher returns, after
\* which last_update_time is not written again.
C34_RefresherFrame ==
    /\ [][RefresherStep =>
            /\ \A f \in DOMAIN stats \ {"LastUpdateTime"} :
                   stats'[f] = stats[f]
            /\ UNCHANGED <<currentLedger, db, dbTx, broadcast, clients,
                           closed, hubRunning, committedRun, reqSeq, pc,
                           ctxDone>>]_vars
    /\ [][stats'.LastUpdateTime # stats.LastUpdateTime
              /\ restarts' = restarts => RefresherStep]_vars
    /\ [](refresher = "running" => ENABLED UpdateStats)
    /\ (ctxDone /\ refresher = "running") ~> (refresher # "running")
    /\ [][refresher = "returned" /\ restarts' = restarts =>
            /\ refresher' = "returned"
            /\ stats'.LastUpdateTime = stats.LastUpdateTime]_vars

\* The refresher has ticked, a ledger has been processed, the context was
\* cancelled and the refresher has returned.
C34_Witness ==
    /\ refresher = "returned"
    /\ ctxDone
    /\ stats.LastUpdateTime > 0
    /\ stats.LedgersProcessed > 0

\* C35: every event row in the open unit of ledger N and every event message
\* published from it carries ledger N, and every committed event row names a
\* ledger of the transaction that emitted it, which is a committed ledger
\* row.
C35_EventLedgerIsContainingLedger ==
    /\ [](\A r \in db.contract_events :
            /\ r.ledger = LedgerOfHash(r.transaction_hash)
            /\ r.ledger \in LedgerSeqs(db))
    /\ [][\A r \in dbTx'.tables.contract_events \ dbTx.tables.contract_events :
            dbTx.open => r.ledger = ledgerSeq]_vars
    /\ [][Len(broadcast') > Len(broadcast)
              /\ broadcast'[Len(broadcast')].type = "contract_event" =>
            broadcast'[Len(broadcast')].data.ledger = ledgerSeq]_vars

\* C36: the cursor always equals stats.CurrentLedger and is never above the
\* persisted checkpoint; a step of a process that moves the cursor moves it
\* to the ledger whose unit has committed and whose number the persisted
\* checkpoint holds.
C36_CursorBehindCheckpoint ==
    /\ [](currentLedger = stats.CurrentLedger)
    /\ [](currentLedger <= Checkpoint)
    /\ [][currentLedger' # currentLedger /\ restarts' = restarts =>
            /\ currentLedger' \in committedRun
            /\ currentLedger' = Checkpoint
            /\ dbTx = NoTx]_vars

\* The cursor was moved to ledger 2 behind the checkpoint of ledger 2.
C36_Witness ==
    /\ currentLedger = 2
    /\ stats.CurrentLedger = 2
    /\ Checkpoint = 2
    /\ pc = "loop"

\* C37: no channel is ever closed a second time; a subscriber that the hub
\* has registered is in the set exactly while its channel is open; only a
\* member of the set gets its channel closed, so that an unregistration of a
\* subscriber that was dropped or never registered closes nothing; and a
\* closed channel stays as it was closed.
C37_ClosedExactlyOnce ==
    /\ [](\A c \in DOMAIN closed : closed[c] \in {"broadcast", "unregister"})
    /\ [](\A c \in DOMAIN clients : c \notin DOMAIN closed)
    /\ [][\A c \in DOMAIN closed' \ DOMAIN closed :
            c \in DOMAIN clients /\ c \notin DOMAIN clients']_vars
    /\ [][\A c \in DOMAIN clients \ DOMAIN clients' :
            c \in DOMAIN closed' \ DOMAIN closed]_vars
    /\ [][\A c \in DOMAIN closed :
            c \in DOMAIN closed' /\ closed'[c] = closed[c]]_vars

\* One subscriber was dropped by a fan-out and the other unregistered, so
\* that every further unregistration is for a subscriber not in the set.
C37_Witness ==
    /\ DOMAIN clients = {}
    /\ \E c, d \in DOMAIN closed :
           closed[c] = "broadcast" /\ closed[d] = "unregister"
    /\ ENABLED UnregisterClient

\* C38: every step that puts a client into the hub's set or takes one out of
\* it is taken with the hub's lock held exclusively, so that no goroutine
\* holds the lock shared in a step that modifies the set.
C38_SetModifiedOnlyUnderExclusiveLock ==
    [][DOMAIN clients' # DOMAIN clients =>
          /\ hubMu.writer = HubRun
          /\ hubMu.readers = {}]_vars

\* Start returns in this step.
StartReturns == pc = "idle" /\ pc' # "idle"

\* C39: a Start in which a call failed returns an error, and a Start that
\* returns no error has prepared the range that begins behind the stored
\* checkpoint when there is one, and at the configured start ledger otherwise.
C39_CheckpointReadFailureSurfaced ==
    [][StartReturns =>
          /\ failBudget' < failBudget => pc' = "failed"
          /\ pc' # "failed" =>
                 ledgerRange'.from = IF Checkpoint > 0 THEN Checkpoint + 1
                                     ELSE config.StartLedger]_vars

====
